---- MODULE Spec2Model ----
(***************************************************************************)
(* State-machine model of the ES9018K2M DAC control plugin.                *)
(*                                                                         *)
(* The socket-based controller (src/unnamed/part_000, lines 1-1045) is     *)
(* modelled handler by handler.  One step of the model is one JavaScript   *)
(* turn: a handler runs to completion, and the bus transactions, timer     *)
(* registrations and forwarded calls it makes are recorded, in program     *)
(* order, in `trace`.  `op` records which handler ran last and with which  *)
(* input.  Synchronous writes (execSync) complete inside the turn; an      *)
(* asynchronous write (i2cWrite) is recorded at its submission.            *)
(*                                                                         *)
(* Specifications:                                                         *)
(*   Spec          the control core (start-up, state feed, volume          *)
(*                 callback, seek intercept, settings) over a socket that  *)
(*                 connects and stays up;                                  *)
(*   SpecScenario  a started controller fed a bounded sequence of states,  *)
(*                 with the whole history of register 0x07 writes kept;    *)
(*   SpecSocket    the connection machine: failures, backoff, fallback     *)
(*                 poller, under a millisecond clock;                      *)
(*   SpecMute      the control core with the three mute intents kept as    *)
(*                 history;                                                *)
(*   SpecFeeds     one run of connection failures during which the engine  *)
(*                 changes and all three state feeds deliver;              *)
(*   SpecBus       start-up and volume callbacks with the bus under them:  *)
(*                 i2cWrite's timers, the i2cset processes, the device's   *)
(*                 registers;                                              *)
(*   SpecSettings  the controller with its settings handlers, the device   *)
(*                 re-check and the stop hooks;                            *)
(*   SpecVolumes   volume callbacks over the whole volume range;           *)
(*   SpecLand      the bus under start-up and seeks;                       *)
(*   SpecLink      the connection machine with its stop functions and the  *)
(*                 timers, intervals and sockets alive;                    *)
(*   SpecReach     SpecLink with timers that fire and an endpoint that is  *)
(*                 reachable in the end;                                   *)
(*   SpecPoll      the polling controller (lines 1047-1950): state poll,   *)
(*                 seek detection, volume callback;                        *)
(*   SpecIndex     the controller of src/index.js.                         *)
(* Further specifications widen the inputs of single handlers.             *)
(***************************************************************************)
EXTENDS Integers, Sequences, FiniteSets, TLC

VARIABLES
  pc,                     \* lifecycle position: "constructed", "starting", "running"
  deviceFound,            \* self.deviceFound
  lastStatus,             \* self.lastStatus ("null" before the first state)
  lastVolume,             \* self.lastVolume (NoVolume before the first volume)
  seekMuteMs,             \* self.seekMuteMs
  reg7,                   \* shadow of register 0x07
  reg12,                  \* shadow of register 0x0C
  reg21,                  \* shadow of register 0x15
  lBal, rBal,             \* balance offsets
  seekInterceptInstalled, \* self.seekInterceptInstalled
  callbackRegistered,     \* volumioupdatevolume handler registered with the engine
  seekTimers,             \* number of pending seek-unmute timers
  config,                 \* persisted configuration (v-conf)
  engine,                 \* the playback engine's state (volumioGetState)
  volumioSocket,          \* "none", "connecting", "connected", "closed"
  socketConnected,        \* self.socketConnected
  reconnectAttempts,      \* self.reconnectAttempts
  reconnectTimer,         \* pending reconnect timer: its delay in ms, or NoTimer
  reconnectDue,           \* clock value at which the reconnect timer fires
  socketFailedSince,      \* self.socketFailedSince (NoTime when null)
  fallbackPoller,         \* a fallback interval is running
  pollerDue,              \* clock value of the next fallback poll
  now,                    \* Date.now(), in ms (1 when the controller is constructed)
  failures,               \* history: failed attempts since the last successful connect
  op,                     \* history: the handler that ran last, with its input
  trace,                  \* history: what the last handler did, in program order
  hist,                   \* history (SpecScenario): what the controller held after
                          \* start-up, then the states delivered so far
  w7log,                  \* history (SpecScenario): writes to register 0x07 so far
  transportMute,          \* history (SpecMute): the delivered status left play and
                          \* has not returned to it
  userMute,               \* history (SpecMute): the engine's last mute report while
                          \* playing was mute = true
  lastI2cWrite,           \* self.lastI2cWrite (SpecBus)
  asyncQueue,             \* (SpecBus) i2cWrite's timers not yet fired, oldest first
  inflight,               \* (SpecBus) i2cset processes started by exec, still running
  dev,                    \* (SpecBus) registers 0x07, 0x0C, 0x15 as the device holds them
  nextSeq,                \* history (SpecBus): number of writes submitted to i2cWrite
  busFailed,              \* history (SpecBus): some write, execSync or exec, has failed
  probes,                 \* (SpecProbe) detection reads started and not yet completed
  probeResult,            \* history (SpecProbe): the result of each completed probe
  probeSeq,               \* history (SpecProbe): number of probes started so far
  feed,                   \* (SpecLive) engine notifications not yet delivered, oldest first
  seekWrappers,           \* (SpecIntercept) wrappers a call of commandRouter.volumioSeek
                          \* runs through before it reaches the original seek
  liveTimers,             \* (SpecLink) reconnect timeouts set and neither fired nor cleared
  liveIntervals,          \* (SpecLink) fallback intervals set and not cleared
  liveSockets,            \* (SpecLink) sockets opened whose listeners were not removed
  lastSeek,               \* (SpecPoll) the polling controller's lastSeek, NoSeek for null
  engineSeek              \* (SpecPoll) the position the engine reports in state.seek

coreVars == <<pc, deviceFound, lastStatus, lastVolume, seekMuteMs, reg7, reg12, reg21,
              lBal, rBal, seekInterceptInstalled, callbackRegistered, seekTimers,
              config, engine>>
socketVars == <<volumioSocket, socketConnected, reconnectAttempts, reconnectTimer,
                reconnectDue, socketFailedSince, fallbackPoller, pollerDue, now, failures>>
scenarioVars == <<hist, w7log>>
intentVars == <<transportMute, userMute>>
busVars == <<lastI2cWrite, asyncQueue, inflight, dev, nextSeq, busFailed>>
probeVars == <<probes, probeResult, probeSeq>>
feedVars == <<feed>>
wiringVars == <<seekWrappers>>
linkVars == <<liveTimers, liveIntervals, liveSockets>>
pollVars == <<lastSeek, engineSeek>>
historyVars == <<scenarioVars, intentVars, busVars, probeVars, feedVars, wiringVars, linkVars, pollVars>>
vars == <<coreVars, socketVars, op, trace, historyVars>>

----------------------------------------------------------------------------
(* Bounds of the model *)

MaxSeekTimers == 2
MaxHist == 3
MaxFailures == 16
MaxTime == 500000
MaxInflight == 2
MaxWrites == 20

(* Program constants *)

NoVolume == -1
NoTimer == -1
NoTime == -1
NoSeek == -1
DefaultSeekMuteMs == 150
I2C_THROTTLE_MS == 30
MaxSeekMuteMs == 2000
REG_GENERAL == 7
REG_DPLL == 12
REG_VOL_L == 15
REG_VOL_R == 16
REG_GPIO == 21
DAC_MIN_GAIN == 99
DAC_MUTE_GAIN == 255
InitVolume == 90
BaseReconnectDelay == 1000
maxReconnectDelay == 30000
FallbackAfterMs == 300000
FallbackIntervalMs == 60000

Statuses == {"play", "pause", "stop"}
Volumes == {40, 100}
Positions == {1000, 5000}
SeekResults == {"resolved", "rejected"}

(* What volumioGetState returns: a state, or nothing. *)
NoState == [present |-> FALSE, status |-> "stop", volume |-> 0, mute |-> FALSE]
EngineStates == [present : {TRUE}, status : Statuses, volume : Volumes, mute : BOOLEAN]

----------------------------------------------------------------------------
(* Bit operations on register bytes *)

RECURSIVE BitAnd(_, _)
BitAnd(a, b) ==
  IF a = 0 \/ b = 0 THEN 0
  ELSE (IF a % 2 = 1 /\ b % 2 = 1 THEN 1 ELSE 0) + 2 * BitAnd(a \div 2, b \div 2)

RECURSIVE BitOr(_, _)
BitOr(a, b) ==
  IF a = 0 THEN b
  ELSE IF b = 0 THEN a
  ELSE (IF a % 2 = 1 \/ b % 2 = 1 THEN 1 ELSE 0) + 2 * BitOr(a \div 2, b \div 2)

MuteBit(byte) == byte % 2 = 1

----------------------------------------------------------------------------
(* Events a handler leaves in `trace` *)

SyncEv(reg, val, ok) == [ev |-> "sync", a |-> reg, b |-> val, ok |-> ok]
AsyncEv(reg, val) == [ev |-> "async", a |-> reg, b |-> val, ok |-> TRUE]
ForwardEv(pos, res) == [ev |-> "forward", a |-> pos, b |-> 0, ok |-> res = "resolved"]
TimerEv(ms) == [ev |-> "timer", a |-> ms, b |-> 0, ok |-> TRUE]
SetIntervalEv == [ev |-> "setInterval", a |-> 0, b |-> 0, ok |-> TRUE]
ClearTimeoutEv == [ev |-> "clearTimeout", a |-> 0, b |-> 0, ok |-> TRUE]
OpenEv == [ev |-> "open", a |-> 0, b |-> 0, ok |-> TRUE]
CloseEv == [ev |-> "close", a |-> 0, b |-> 0, ok |-> TRUE]

\* connectSocket: an existing socket loses its listeners and is closed, then a
\* new one is opened.
ConnectSocket(sock) == (IF sock # "none" THEN <<CloseEv>> ELSE <<>>) \o <<OpenEv>>

IsWrite(e, reg) == e.ev \in {"sync", "async"} /\ e.a = reg
Writes(t, reg) == SelectSeq(t, LAMBDA e : IsWrite(e, reg))
Forwards(t) == SelectSeq(t, LAMBDA e : e.ev = "forward")

\* `flag` is the mute flag a volume callback carried, `pos` and `ret` the position
\* a seek call was given and the value it returned.
Op(name, flag, pos, ret) == [name |-> name, flag |-> flag, pos |-> pos, ret |-> ret]
NoOp == Op("none", "none", 0, "none")

----------------------------------------------------------------------------
(* DAC control functions *)

\* i2cWriteSync: one blocking i2cset; `ok` is whether execSync returned normally.
I2cWriteSync(reg, val, ok) == <<SyncEv(reg, val, ok)>>

\* The outcomes of the synchronous write a handler makes, if it makes one.
SyncOutcomes(writes) == IF writes THEN BOOLEAN ELSE {TRUE}

\* i2cWrite: the write is handed to a timer; the caller continues at once.
I2cWrite(reg, val) == <<AsyncEv(reg, val)>>

\* setMuteSync, shadow part: set or clear bit 0 of reg7.
MuteByte(r7, mute) == IF mute THEN BitOr(r7, 1) ELSE BitAnd(r7, 254)

\* setMuteSync, bus part: the new shadow byte goes out whatever the outcome.
SetMuteSync(r7, mute, ok) == I2cWriteSync(REG_GENERAL, MuteByte(r7, mute), ok)

\* Math.round(x / 100) for an integer x: floor(x / 100 + 0.5).
RoundDiv100(x) == (x + 50) \div 100

\* A variant that gives full gain at volume 0.
Attenuation_FullGainAtZero(vol) ==
  IF vol <= 0 THEN 0
  ELSE RoundDiv100(100 * DAC_MIN_GAIN - vol * DAC_MIN_GAIN)

\* setVolume's attenuation byte: 0xFF at volume 0, else round(0x63 - vol * 0x63 / 100).
\* A variant that rounds the attenuation up, so that volume 1 gives DAC_MIN_GAIN.
Attenuation_RoundUp(vol) ==
  IF vol <= 0 THEN DAC_MUTE_GAIN
  ELSE (100 * DAC_MIN_GAIN - vol * DAC_MIN_GAIN + 99) \div 100

Attenuation(vol) ==
  IF vol <= 0 THEN DAC_MUTE_GAIN
  ELSE RoundDiv100(100 * DAC_MIN_GAIN - vol * DAC_MIN_GAIN)

Min(a, b) == IF a < b THEN a ELSE b
Max(a, b) == IF a > b THEN a ELSE b

\* A variant that adds the balance offset without the cap at 255.
SetVolume_NoCap(vol, lb, rb) ==
  I2cWrite(REG_VOL_L, Attenuation(vol) + lb) \o I2cWrite(REG_VOL_R, Attenuation(vol) + rb)

SetVolume(vol, lb, rb) ==
  I2cWrite(REG_VOL_L, Min(255, Attenuation(vol) + lb))
    \o I2cWrite(REG_VOL_R, Min(255, Attenuation(vol) + rb))


ReadEv(reg) == [ev |-> "read", a |-> reg, b |-> 0, ok |-> TRUE]

\* A variant whose mask also clears the mute bit of reg7.
SetFirFilter_ClearsMute(r7, r21, mode) ==
  LET c7 == BitAnd(r7, 158)
      c21 == BitAnd(r21, 254)
      n7 == IF mode = 0 THEN BitOr(c7, 32) ELSE IF mode = 2 THEN BitOr(c7, 64) ELSE c7
      n21 == IF mode = 3 THEN BitOr(c21, 1) ELSE c21
  IN [reg7 |-> n7, reg21 |-> n21,
      trace |-> I2cWrite(REG_GENERAL, n7) \o I2cWrite(REG_GPIO, n21)]

\* setFirFilter: bits 5-6 of reg7 and bit 0 of reg21, then both registers are sent.
SetFirFilter(r7, r21, mode) ==
  LET c7 == BitAnd(r7, 159)
      c21 == BitAnd(r21, 254)
      n7 == IF mode = 0 THEN BitOr(c7, 32) ELSE IF mode = 2 THEN BitOr(c7, 64) ELSE c7
      n21 == IF mode = 3 THEN BitOr(c21, 1) ELSE c21
  IN [reg7 |-> n7, reg21 |-> n21,
      trace |-> I2cWrite(REG_GENERAL, n7) \o I2cWrite(REG_GPIO, n21)]

\* setIirFilter: bits 2-3 of reg7 and bit 2 of reg21, then both registers are sent.
SetIirFilter(r7, r21, mode) ==
  LET c7 == BitAnd(r7, 243)
      c21 == BitAnd(r21, 251)
      n7 == IF mode = 1 THEN BitOr(c7, 4)
            ELSE IF mode = 2 THEN BitOr(c7, 8)
            ELSE IF mode = 3 THEN BitOr(c7, 12) ELSE c7
      n21 == IF mode = 4 THEN BitOr(c21, 4) ELSE c21
  IN [reg7 |-> n7, reg21 |-> n21,
      trace |-> I2cWrite(REG_GENERAL, n7) \o I2cWrite(REG_GPIO, n21)]

SetDeemphasis(mode) == I2cWrite(6, mode)

\* setDpll: high nibble from the I2S value, low nibble from the DSD value.
SetDpll(i2sValue, dsdValue) ==
  LET n12 == BitOr(BitAnd(i2sValue, 240), BitAnd(dsdValue, 15))
  IN [reg12 |-> n12, trace |-> I2cWrite(REG_DPLL, n12)]

----------------------------------------------------------------------------
(* The state change handler *)

\* A variant that mutes on every pause or stop, whatever came before.
StatusMuteCall_MuteOnAnyStop(s, ls) ==
  IF s.status = ls THEN "none"
  ELSE IF s.status \in {"stop", "pause"} THEN "mute"
  ELSE IF s.status = "play"
       THEN (IF ls # "play" /\ ~s.mute THEN "unmute" ELSE "none")
  ELSE "none"

\* A variant that unmutes only when coming from pause or stop.
StatusMuteCall_NoUnmuteFromNull(s, ls) ==
  IF s.status = ls THEN "none"
  ELSE IF s.status \in {"stop", "pause"}
       THEN (IF ls = "play" THEN "mute" ELSE "none")
  ELSE IF s.status = "play"
       THEN (IF ls \in {"stop", "pause"} /\ ~s.mute THEN "unmute" ELSE "none")
  ELSE "none"

\* Which mute call handleStateChange makes for state s when lastStatus is ls.
StatusMuteCall(s, ls) ==
  IF s.status = ls THEN "none"
  ELSE IF s.status \in {"stop", "pause"}
       THEN (IF ls = "play" THEN "mute" ELSE "none")
  ELSE IF s.status = "play"
       THEN (IF ls # "play" /\ ~s.mute THEN "unmute" ELSE "none")
  ELSE "none"

\* A variant without the volume comparison: every delivery sets the volume.
HandleStateChangeFx_NoVolumeDedup(s, found, ls, lv, r7, lb, rb, ok) ==
  IF ~found \/ ~s.present
  THEN [lastStatus |-> ls, lastVolume |-> lv, reg7 |-> r7, trace |-> <<>>]
  ELSE LET call == StatusMuteCall(s, ls)
           n7 == IF call = "mute" THEN MuteByte(r7, TRUE)
                 ELSE IF call = "unmute" THEN MuteByte(r7, FALSE) ELSE r7
           t7 == IF call = "mute" THEN SetMuteSync(r7, TRUE, ok)
                 ELSE IF call = "unmute" THEN SetMuteSync(r7, FALSE, ok) ELSE <<>>
       IN [lastStatus |-> s.status, lastVolume |-> s.volume, reg7 |-> n7,
           trace |-> t7 \o SetVolume(s.volume, lb, rb)]

\* handleStateChange(state) as a function of the fields it reads; `ok` is the
\* outcome of the synchronous write, should it make one.
HandleStateChangeFx(s, found, ls, lv, r7, lb, rb, ok) ==
  IF ~found \/ ~s.present
  THEN [lastStatus |-> ls, lastVolume |-> lv, reg7 |-> r7, trace |-> <<>>]
  ELSE LET call == StatusMuteCall(s, ls)
           n7 == IF call = "mute" THEN MuteByte(r7, TRUE)
                 ELSE IF call = "unmute" THEN MuteByte(r7, FALSE) ELSE r7
           t7 == IF call = "mute" THEN SetMuteSync(r7, TRUE, ok)
                 ELSE IF call = "unmute" THEN SetMuteSync(r7, FALSE, ok) ELSE <<>>
           tv == IF s.volume # lv THEN SetVolume(s.volume, lb, rb) ELSE <<>>
       IN [lastStatus |-> s.status, lastVolume |-> s.volume, reg7 |-> n7,
           trace |-> t7 \o tv]

\* The part of handleStateChange's effect on the controller's variables.
HandleStateChange(s, ok) ==
  LET fx == HandleStateChangeFx(s, deviceFound, lastStatus, lastVolume, reg7, lBal, rBal, ok)
  IN /\ lastStatus' = fx.lastStatus
     /\ lastVolume' = fx.lastVolume
     /\ reg7' = fx.reg7
     /\ trace' = fx.trace

----------------------------------------------------------------------------
(* Lifecycle *)

\* lastI2cWrite starts at 0 on the epoch clock: further back than any throttle
\* window on the model's clock, which starts at 1.
NeverWritten == -I2C_THROTTLE_MS

\* The registers that have a shadow.
ShadowRegs == {REG_GENERAL, REG_DPLL, REG_GPIO}

DefaultConfig ==
  [seekMuteMs |-> DefaultSeekMuteMs, balance |-> 0, fir |-> 1, iir |-> 0,
   deemphasis |-> 74, i2sDpll |-> 80, dsdDpll |-> 10]

Init ==
  /\ pc = "constructed"
  /\ deviceFound = FALSE
  /\ lastStatus = "null"
  /\ lastVolume = NoVolume
  /\ seekMuteMs = DefaultSeekMuteMs
  /\ reg7 = 128
  /\ reg12 = 90
  /\ reg21 = 0
  /\ lBal = 0
  /\ rBal = 0
  /\ seekInterceptInstalled = FALSE
  /\ callbackRegistered = FALSE
  /\ seekTimers = 0
  /\ config = DefaultConfig
  /\ engine \in EngineStates \cup {NoState}
  /\ volumioSocket = "none"
  /\ socketConnected = FALSE
  /\ reconnectAttempts = 0
  /\ reconnectTimer = NoTimer
  /\ reconnectDue = NoTime
  /\ socketFailedSince = NoTime
  /\ fallbackPoller = FALSE
  /\ pollerDue = NoTime
  /\ now = 1
  /\ failures = 0
  /\ op = NoOp
  /\ trace = <<>>
  /\ hist = <<>>
  /\ w7log = <<>>
  /\ transportMute = FALSE
  /\ userMute = FALSE
  /\ lastI2cWrite = NeverWritten
  /\ asyncQueue = <<>>
  /\ inflight = {}
  /\ dev = [r \in ShadowRegs |-> [val |-> IF r = REG_GENERAL THEN 128
                                          ELSE IF r = REG_DPLL THEN 90 ELSE 0,
                                  seq |-> 0]]
  /\ nextSeq = 0
  /\ busFailed = FALSE
  /\ probes = {}
  /\ probeResult = {}
  /\ probeSeq = 0
  /\ feed = <<>>
  /\ seekWrappers = 0
  /\ liveTimers = 0
  /\ liveIntervals = 0
  /\ liveSockets = 0
  /\ lastSeek = NoSeek
  /\ engineSeek = 0

\* loadConfig: the balance goes to one of the two offsets.
LoadConfig(cfg) ==
  [seekMuteMs |-> cfg.seekMuteMs,
   lBal |-> IF cfg.balance > 0 THEN cfg.balance ELSE 0,
   rBal |-> IF cfg.balance < 0 THEN 0 - cfg.balance ELSE 0]

\* The detection byte: present exactly when (value AND 0x1C) = 0x10.
IsES9018K2M(status) == BitAnd(status, 28) = 16

\* The bytes register 64 may hold.
ProbeBytes == 0..255

\* The outcome of the detection read, as checkDevice's callbacks receive it.
ProbeEv(byte, readOk) == [ev |-> "probe", a |-> 64, b |-> byte, ok |-> readOk]

\* A variant that looks at bit 4 only.
CheckDevice_Bit4Only(readOk, byte) == readOk /\ BitAnd(byte, 16) = 16

\* checkDevice: what its promise resolves to when the read of register 64
\* succeeded with `byte`, or failed.
CheckDevice(readOk, byte) == readOk /\ IsES9018K2M(byte)

\* onStart up to the detection read: loadConfig, then checkDevice is under way.
OnStart ==
  /\ pc = "constructed"
  /\ pc' = "starting"
  /\ seekMuteMs' = LoadConfig(config).seekMuteMs
  /\ lBal' = LoadConfig(config).lBal
  /\ rBal' = LoadConfig(config).rBal
  /\ op' = Op("onStart", "none", 0, "none")
  /\ trace' = <<ReadEv(64)>>
  /\ UNCHANGED <<deviceFound, lastStatus, lastVolume, reg7, reg12, reg21,
                 seekInterceptInstalled, callbackRegistered, seekTimers, config, engine>>
  /\ UNCHANGED socketVars

\* initDevice as a function of the shadow reg7 and the balance.
InitDeviceFx(r7, lb, rb, ok1, ok2) ==
  LET m7 == MuteByte(r7, TRUE)
      u7 == MuteByte(m7, FALSE)
  IN [reg7 |-> u7,
      trace |-> SetMuteSync(r7, TRUE, ok1)
                  \o I2cWrite(0, 0) \o I2cWrite(1, 196) \o I2cWrite(4, 16)
                  \o I2cWrite(5, 104) \o I2cWrite(6, 71) \o I2cWrite(8, 1)
                  \o I2cWrite(REG_DPLL, 95) \o I2cWrite(14, 138)
                  \o I2cWrite(REG_GPIO, 0) \o I2cWrite(27, 212)
                  \o SetVolume(InitVolume, lb, rb)
                  \o SetMuteSync(m7, FALSE, ok2)]

\* applySettings as a function of the shadows and the stored configuration.
ApplySettingsFx(r7, r21, cfg) ==
  LET fir == SetFirFilter(r7, r21, cfg.fir)
      iir == SetIirFilter(fir.reg7, fir.reg21, cfg.iir)
      dpll == SetDpll(cfg.i2sDpll, cfg.dsdDpll)
  IN [reg7 |-> iir.reg7, reg21 |-> iir.reg21, reg12 |-> dpll.reg12,
      trace |-> fir.trace \o iir.trace \o SetDeemphasis(cfg.deemphasis) \o dpll.trace]

\* onStart's continuation, device absent: nothing is installed.
StartAbsent ==
  /\ pc = "starting"
  /\ pc' = "running"
  /\ deviceFound' = FALSE
  /\ op' = Op("startAbsent", "none", 0, "resolved")
  /\ \E readOk \in BOOLEAN, byte \in ProbeBytes :
       /\ ~CheckDevice(readOk, byte)
       /\ trace' = <<ProbeEv(byte, readOk)>>
  /\ UNCHANGED <<lastStatus, lastVolume, seekMuteMs, reg7, reg12, reg21, lBal, rBal,
                 seekInterceptInstalled, callbackRegistered, seekTimers, config, engine>>
  /\ UNCHANGED socketVars

\* onStart's continuation, device found: initDevice, applySettings,
\* installSeekIntercept, startVolumeSync (with its initial pull) and connectSocket.
StartFound ==
  /\ pc = "starting"
  /\ \E byte \in ProbeBytes, ok1 \in BOOLEAN, ok2 \in BOOLEAN, ok3 \in BOOLEAN :
       LET ini == InitDeviceFx(reg7, lBal, rBal, ok1, ok2)
           app == ApplySettingsFx(ini.reg7, reg21, config)
           hsc == HandleStateChangeFx(engine, TRUE, lastStatus, lastVolume,
                                      app.reg7, lBal, rBal, ok3)
       IN /\ reg7' = hsc.reg7
          /\ reg21' = app.reg21
          /\ reg12' = app.reg12
          /\ lastStatus' = hsc.lastStatus
          /\ lastVolume' = hsc.lastVolume
          /\ CheckDevice(TRUE, byte)
          /\ trace' = <<ProbeEv(byte, TRUE)>> \o ini.trace \o app.trace \o hsc.trace
                        \o ConnectSocket(volumioSocket)
  /\ pc' = "running"
  /\ deviceFound' = TRUE
  /\ seekInterceptInstalled' = TRUE
  /\ callbackRegistered' = TRUE
  /\ volumioSocket' = "connecting"
  /\ op' = Op("initialPull", "none", 0, "resolved")
  /\ UNCHANGED <<seekMuteMs, lBal, rBal, seekTimers, config, engine>>
  /\ UNCHANGED <<socketConnected, reconnectAttempts, reconnectTimer, reconnectDue,
                 socketFailedSince, fallbackPoller, pollerDue, now, failures>>


----------------------------------------------------------------------------
(* The playback engine *)

\* One change of the engine: it comes up or goes away, or one field changes.
EngineStep(e, f) ==
  \/ e.present # f.present
  \/ /\ e.present /\ f.present
     /\ Cardinality({k \in {"status", "volume", "mute"} : e[k] # f[k]}) = 1

\* The engine moves to another state on its own (user, end of track, ...).
EngineChange ==
  /\ pc = "running"
  /\ \E f \in EngineStates \cup {NoState} : EngineStep(engine, f) /\ engine' = f
  /\ op' = NoOp
  /\ trace' = <<>>
  /\ UNCHANGED <<pc, deviceFound, lastStatus, lastVolume, seekMuteMs, reg7, reg12,
                 reg21, lBal, rBal, seekInterceptInstalled, callbackRegistered,
                 seekTimers, config>>
  /\ UNCHANGED socketVars

----------------------------------------------------------------------------
(* The socket's connect and pushState handlers *)

\* socket.emit('getState') and clearInterval, as events of `trace`.
EmitEv == [ev |-> "emit", a |-> 0, b |-> 0, ok |-> TRUE]
ClearIntervalEv == [ev |-> "clearInterval", a |-> 0, b |-> 0, ok |-> TRUE]

\* stopFallbackPoller: the interval is cleared if one is running.
StopFallbackPoller(poller) == IF poller THEN <<ClearIntervalEv>> ELSE <<>>

\* A variant of the connect handler that leaves the fallback poller alone.
SocketConnect_KeepPoller ==
  /\ volumioSocket = "connecting"
  /\ volumioSocket' = "connected"
  /\ socketConnected' = TRUE
  /\ reconnectAttempts' = 0
  /\ socketFailedSince' = NoTime
  /\ failures' = 0
  /\ op' = Op("connect", "none", 0, "none")
  /\ trace' = <<EmitEv>>
  /\ UNCHANGED <<reconnectTimer, reconnectDue, now, fallbackPoller, pollerDue>>
  /\ UNCHANGED coreVars

\* 'connect': flags reset, fallback poller stopped, getState requested.
SocketConnect ==
  /\ volumioSocket = "connecting"
  /\ volumioSocket' = "connected"
  /\ socketConnected' = TRUE
  /\ reconnectAttempts' = 0
  /\ socketFailedSince' = NoTime
  /\ fallbackPoller' = FALSE
  /\ pollerDue' = NoTime
  /\ failures' = 0
  /\ op' = Op("connect", "none", 0, "none")
  /\ trace' = StopFallbackPoller(fallbackPoller) \o <<EmitEv>>
  /\ UNCHANGED <<reconnectTimer, reconnectDue, now>>
  /\ UNCHANGED coreVars

\* 'pushState': the engine's state arrives on the socket.
PushState ==
  /\ volumioSocket = "connected"
  /\ engine.present
  /\ \E ok \in SyncOutcomes(deviceFound /\ engine.present
                              /\ StatusMuteCall(engine, lastStatus) # "none") :
       HandleStateChange(engine, ok)
  /\ op' = Op("pushState", "none", 0, "none")
  /\ UNCHANGED <<pc, deviceFound, seekMuteMs, reg12, reg21, lBal, rBal,
                 seekInterceptInstalled, callbackRegistered, seekTimers, config, engine>>
  /\ UNCHANGED socketVars

----------------------------------------------------------------------------
(* The volume callback *)

\* What the engine passes to the volumioupdatevolume handler: a volume and,
\* possibly, a boolean mute flag ("none" when the field is no boolean).
MuteFlags == {"true", "false", "none"}

\* A variant that forwards the mute flag whatever the engine's status.
VolumeCallbackFx_AnyStatus(vol, muteFlag, st, lv, r7, lb, rb, ok) ==
  LET tv == IF vol # lv THEN SetVolume(vol, lb, rb) ELSE <<>>
      apply == muteFlag # "none"
      n7 == IF apply THEN MuteByte(r7, muteFlag = "true") ELSE r7
      t7 == IF apply THEN SetMuteSync(r7, muteFlag = "true", TRUE) ELSE <<>>
  IN [lastVolume |-> vol, reg7 |-> n7, trace |-> tv \o t7]

\* A variant that forwards mute = true only: an unmute report is dropped.
VolumeCallbackFx_MuteOnly(vol, muteFlag, st, lv, r7, lb, rb, ok) ==
  LET tv == IF vol # lv THEN SetVolume(vol, lb, rb) ELSE <<>>
      apply == muteFlag = "true" /\ st.present /\ st.status = "play"
      n7 == IF apply THEN MuteByte(r7, TRUE) ELSE r7
      t7 == IF apply THEN SetMuteSync(r7, TRUE, ok) ELSE <<>>
  IN [lastVolume |-> vol, reg7 |-> n7, trace |-> tv \o t7]

\* volumeCallback as a function of the fields it reads; st is the state it pulls.
VolumeCallbackFx(vol, muteFlag, st, lv, r7, lb, rb, ok) ==
  LET tv == IF vol # lv THEN SetVolume(vol, lb, rb) ELSE <<>>
      apply == muteFlag # "none" /\ st.present /\ st.status = "play"
      n7 == IF apply THEN MuteByte(r7, muteFlag = "true") ELSE r7
      t7 == IF apply THEN SetMuteSync(r7, muteFlag = "true", ok) ELSE <<>>
  IN [lastVolume |-> vol, reg7 |-> n7, trace |-> tv \o t7]

VolumeCallbackOver(vols) ==
  /\ callbackRegistered
  /\ \E vol \in vols, muteFlag \in MuteFlags :
     \E ok \in SyncOutcomes(muteFlag # "none" /\ engine.present /\ engine.status = "play") :
       LET fx == VolumeCallbackFx(vol, muteFlag, engine, lastVolume, reg7, lBal, rBal, ok)
       IN /\ lastVolume' = fx.lastVolume
          /\ reg7' = fx.reg7
          /\ trace' = fx.trace
          /\ op' = Op("volumeCallback", muteFlag, 0, "none")
  /\ UNCHANGED <<pc, deviceFound, lastStatus, seekMuteMs, reg12, reg21, lBal, rBal,
                 seekInterceptInstalled, callbackRegistered, seekTimers, config, engine>>
  /\ UNCHANGED socketVars

\* The volume callback, for the volumes of the model.
VolumeCallback == VolumeCallbackOver(Volumes)

----------------------------------------------------------------------------
(* The seek intercept *)

\* A reactive variant: the seek is forwarded first and the mute follows it.
SeekWrapperFx_MuteAfterForward(pos, res, found, ms, r7, ok) ==
  LET armed == found /\ ms > 0
  IN [reg7 |-> IF armed THEN MuteByte(r7, TRUE) ELSE r7,
      trace |-> <<ForwardEv(pos, res)>>
                  \o (IF armed THEN SetMuteSync(r7, TRUE, ok) \o <<TimerEv(ms)>> ELSE <<>>),
      timers |-> IF armed THEN 1 ELSE 0,
      ret |-> res]

\* A variant that gives up the seek when the mute write fails.
SeekWrapperFx_DropOnFailedMute(pos, res, found, ms, r7, ok) ==
  LET armed == found /\ ms > 0
  IN [reg7 |-> IF armed THEN MuteByte(r7, TRUE) ELSE r7,
      trace |-> (IF armed THEN SetMuteSync(r7, TRUE, ok) ELSE <<>>)
                  \o (IF armed /\ ~ok THEN <<>> ELSE <<ForwardEv(pos, res)>>)
                  \o (IF armed THEN <<TimerEv(ms)>> ELSE <<>>),
      timers |-> IF armed THEN 1 ELSE 0,
      ret |-> IF armed /\ ~ok THEN "rejected" ELSE res]

\* The wrapper installed on commandRouter.volumioSeek, as a function of the
\* fields it reads: pre-mute, forward, schedule the unmute, return the result.
\* `res` is what the original volumioSeek returns.
SeekWrapperFx(pos, res, found, ms, r7, ok) ==
  LET armed == found /\ ms > 0
  IN [reg7 |-> IF armed THEN MuteByte(r7, TRUE) ELSE r7,
      trace |-> (IF armed THEN SetMuteSync(r7, TRUE, ok) ELSE <<>>)
                  \o <<ForwardEv(pos, res)>>
                  \o (IF armed THEN <<TimerEv(ms)>> ELSE <<>>),
      timers |-> IF armed THEN 1 ELSE 0,
      ret |-> res]

Seek ==
  /\ seekInterceptInstalled
  /\ \E pos \in Positions, res \in SeekResults :
     \E ok \in SyncOutcomes(deviceFound /\ seekMuteMs > 0) :
       LET fx == SeekWrapperFx(pos, res, deviceFound, seekMuteMs, reg7, ok)
       IN /\ seekTimers + fx.timers <= MaxSeekTimers
          /\ reg7' = fx.reg7
          /\ trace' = fx.trace
          /\ seekTimers' = seekTimers + fx.timers
          /\ op' = Op("seek", "none", pos, fx.ret)
  /\ UNCHANGED <<pc, deviceFound, lastStatus, lastVolume, seekMuteMs, reg12, reg21,
                 lBal, rBal, seekInterceptInstalled, callbackRegistered,
                 config, engine>>
  /\ UNCHANGED socketVars

\* A variant that unmutes whenever the engine plays, muted by the user or not.
SeekTimerFx_IgnoreUserMute(st, r7, ok) ==
  LET clear == st.present /\ st.status = "play"
  IN [reg7 |-> IF clear THEN MuteByte(r7, FALSE) ELSE r7,
      trace |-> IF clear THEN SetMuteSync(r7, FALSE, ok) ELSE <<>>]

\* The unmute timer's callback as a function of the state it pulls.
SeekTimerFx(st, r7, ok) ==
  LET clear == st.present /\ st.status = "play" /\ ~st.mute
  IN [reg7 |-> IF clear THEN MuteByte(r7, FALSE) ELSE r7,
      trace |-> IF clear THEN SetMuteSync(r7, FALSE, ok) ELSE <<>>]

SeekTimerFire ==
  /\ seekTimers > 0
  /\ \E ok \in SyncOutcomes(engine.present /\ engine.status = "play" /\ ~engine.mute) :
       LET fx == SeekTimerFx(engine, reg7, ok)
       IN /\ reg7' = fx.reg7
          /\ trace' = fx.trace
  /\ seekTimers' = seekTimers - 1
  /\ op' = Op("seekTimer", "none", 0, "none")
  /\ UNCHANGED <<pc, deviceFound, lastStatus, lastVolume, seekMuteMs, reg12, reg21,
                 lBal, rBal, seekInterceptInstalled, callbackRegistered,
                 config, engine>>
  /\ UNCHANGED socketVars

----------------------------------------------------------------------------
(* UI action handlers *)

\* A value typed into the seek-mute field: an integer, or text parseInt rejects.
NotANumber == [num |-> FALSE, val |-> 0]
SeekMuteInputs == {[num |-> TRUE, val |-> v] : v \in {-5, 0, 150}} \cup {NotANumber}

\* A variant without the lower bound of the clamp.
ClampSeekMuteMs_NoFloor(x) ==
  LET parsed == IF x.num /\ x.val # 0 THEN x.val ELSE DefaultSeekMuteMs
  IN Min(MaxSeekMuteMs, parsed)

\* parseInt(x, 10) || 150, clamped to [0, 2000].
ClampSeekMuteMs(x) ==
  LET parsed == IF x.num /\ x.val # 0 THEN x.val ELSE DefaultSeekMuteMs
  IN Max(0, Min(MaxSeekMuteMs, parsed))

\* saveDeviceSettings; op records what was typed into the field.
SaveDeviceSettingsOver(inputs) ==
  /\ pc = "running"
  /\ \E x \in inputs :
       /\ seekMuteMs' = ClampSeekMuteMs(x)
       /\ config' = [config EXCEPT !.seekMuteMs = ClampSeekMuteMs(x)]
       /\ op' = Op("saveDeviceSettings", IF x.num THEN "number" ELSE "text", x.val, "none")
  /\ trace' = <<>>
  /\ UNCHANGED <<pc, deviceFound, lastStatus, lastVolume, reg7, reg12, reg21, lBal,
                 rBal, seekInterceptInstalled, callbackRegistered, seekTimers,
                 engine>>
  /\ UNCHANGED socketVars

SaveDeviceSettings == SaveDeviceSettingsOver(SeekMuteInputs)

\* What checkDevice may resolve to: the read fails, or it returns a byte.
ProbeResults == {CheckDevice(readOk, byte) : readOk \in BOOLEAN, byte \in ProbeBytes}

\* checkDeviceStatus, at the completion of its detection read (starting the read
\* changes nothing of the controller): deviceFound takes the probe's result.
CheckDeviceStatus ==
  /\ pc = "running"
  /\ \E found \in ProbeResults : deviceFound' = found
  /\ op' = Op("ui", "none", 0, "none")
  /\ trace' = <<ReadEv(64)>>
  /\ UNCHANGED <<pc, lastStatus, lastVolume, seekMuteMs, reg7, reg12, reg21, lBal,
                 rBal, seekInterceptInstalled, callbackRegistered, seekTimers, config,
                 engine>>
  /\ UNCHANGED socketVars

----------------------------------------------------------------------------
(* The control core *)

Next ==
  \/ (OnStart /\ UNCHANGED historyVars)
  \/ (StartAbsent /\ UNCHANGED historyVars)
  \/ (StartFound /\ UNCHANGED historyVars)
  \/ (EngineChange /\ UNCHANGED historyVars)
  \/ (SocketConnect /\ UNCHANGED historyVars)
  \/ (PushState /\ UNCHANGED historyVars)
  \/ (VolumeCallback /\ UNCHANGED historyVars)
  \/ (Seek /\ UNCHANGED historyVars)
  \/ (SeekTimerFire /\ UNCHANGED historyVars)
  \/ (SaveDeviceSettings /\ UNCHANGED historyVars)
  \/ (CheckDeviceStatus /\ UNCHANGED historyVars)

Spec == Init /\ [][Next]_vars


----------------------------------------------------------------------------
(* The connection machine: failures, backoff, fallback poller *)

RECURSIVE Pow2(_)
Pow2(n) == IF n <= 0 THEN 1 ELSE 2 * Pow2(n - 1)

\* A variant whose delay is never capped.
ReconnectDelay_Uncapped(attempts) == BaseReconnectDelay * Pow2(attempts - 1)

\* The delay scheduleReconnect computes once reconnectAttempts has been incremented.
ReconnectDelay(attempts) == Min(BaseReconnectDelay * Pow2(attempts - 1), maxReconnectDelay)

\* A variant that starts the fallback poller at the first failure already.
ScheduleReconnectFx_EagerFallback(attempts, failedSince, poller, due, clock) ==
  LET n == attempts + 1
      delay == ReconnectDelay(n)
      since == IF failedSince = NoTime THEN clock ELSE failedSince
      start == ~poller
  IN [reconnectTimer |-> delay, reconnectDue |-> clock + delay,
      reconnectAttempts |-> n, socketFailedSince |-> since,
      fallbackPoller |-> (poller \/ start),
      pollerDue |-> IF start THEN clock + FallbackIntervalMs ELSE due,
      trace |-> <<TimerEv(delay)>>]

\* scheduleReconnect past its early return, as a function of the fields it reads;
\* clock is Date.now().
ScheduleReconnectFx(attempts, failedSince, poller, due, clock) ==
  LET n == attempts + 1
      delay == ReconnectDelay(n)
      since == IF failedSince = NoTime THEN clock ELSE failedSince
      start == clock - since > FallbackAfterMs /\ ~poller
  IN [reconnectTimer |-> delay, reconnectDue |-> clock + delay,
      reconnectAttempts |-> n, socketFailedSince |-> since,
      fallbackPoller |-> (poller \/ start),
      pollerDue |-> IF start THEN clock + FallbackIntervalMs ELSE due,
      trace |-> (IF start THEN <<SetIntervalEv>> ELSE <<>>) \o <<TimerEv(delay)>>]

\* A variant without the early return: a timer is set at every call.
ScheduleReconnect_NoGuard ==
  LET fx == ScheduleReconnectFx(reconnectAttempts, socketFailedSince,
                                fallbackPoller, pollerDue, now)
  IN /\ reconnectTimer' = fx.reconnectTimer
     /\ reconnectDue' = fx.reconnectDue
     /\ reconnectAttempts' = fx.reconnectAttempts
     /\ socketFailedSince' = fx.socketFailedSince
     /\ fallbackPoller' = fx.fallbackPoller
     /\ pollerDue' = fx.pollerDue
     /\ trace' = fx.trace

\* A variant that gives up after three attempts.
ScheduleReconnect_GiveUp ==
  IF reconnectTimer # NoTimer \/ reconnectAttempts >= 3
  THEN /\ trace' = <<>>
       /\ UNCHANGED <<reconnectTimer, reconnectDue, reconnectAttempts,
                      socketFailedSince, fallbackPoller, pollerDue>>
  ELSE LET fx == ScheduleReconnectFx(reconnectAttempts, socketFailedSince,
                                     fallbackPoller, pollerDue, now)
       IN /\ reconnectTimer' = fx.reconnectTimer
          /\ reconnectDue' = fx.reconnectDue
          /\ reconnectAttempts' = fx.reconnectAttempts
          /\ socketFailedSince' = fx.socketFailedSince
          /\ fallbackPoller' = fx.fallbackPoller
          /\ pollerDue' = fx.pollerDue
          /\ trace' = fx.trace

\* scheduleReconnect: nothing when a timer is pending already.
ScheduleReconnect ==
  IF reconnectTimer # NoTimer
  THEN /\ trace' = <<>>
       /\ UNCHANGED <<reconnectTimer, reconnectDue, reconnectAttempts,
                      socketFailedSince, fallbackPoller, pollerDue>>
  ELSE LET fx == ScheduleReconnectFx(reconnectAttempts, socketFailedSince,
                                     fallbackPoller, pollerDue, now)
       IN /\ reconnectTimer' = fx.reconnectTimer
          /\ reconnectDue' = fx.reconnectDue
          /\ reconnectAttempts' = fx.reconnectAttempts
          /\ socketFailedSince' = fx.socketFailedSince
          /\ fallbackPoller' = fx.fallbackPoller
          /\ pollerDue' = fx.pollerDue
          /\ trace' = fx.trace

\* 'connect_error': the attempt under way fails.
ConnectError ==
  /\ volumioSocket = "connecting"
  /\ failures < MaxFailures
  /\ volumioSocket' = "closed"
  /\ socketConnected' = FALSE
  /\ ScheduleReconnect
  /\ failures' = failures + 1
  /\ op' = Op("connect_error", "none", 0, "none")
  /\ UNCHANGED now
  /\ UNCHANGED coreVars

\* 'disconnect': an established connection is lost.
Disconnect ==
  /\ volumioSocket = "connected"
  /\ failures < MaxFailures
  /\ volumioSocket' = "closed"
  /\ socketConnected' = FALSE
  /\ ScheduleReconnect
  /\ failures' = failures + 1
  /\ op' = Op("disconnect", "none", 0, "none")
  /\ UNCHANGED now
  /\ UNCHANGED coreVars

\* The reconnect timer fires: the timer is forgotten and connectSocket runs.
ReconnectFire ==
  /\ reconnectTimer # NoTimer
  /\ now = reconnectDue
  /\ reconnectTimer' = NoTimer
  /\ reconnectDue' = NoTime
  /\ volumioSocket' = "connecting"
  /\ op' = Op("reconnect", "none", 0, "none")
  /\ trace' = ConnectSocket(volumioSocket)
  /\ UNCHANGED <<socketConnected, reconnectAttempts, socketFailedSince, fallbackPoller,
                 pollerDue, now, failures>>
  /\ UNCHANGED coreVars

\* The fallback interval fires: the state is pulled and handled like a pushed one.
FallbackPoll ==
  /\ fallbackPoller
  /\ now = pollerDue
  /\ pollerDue' = now + FallbackIntervalMs
  /\ \E ok \in SyncOutcomes(deviceFound /\ engine.present
                              /\ StatusMuteCall(engine, lastStatus) # "none") :
       HandleStateChange(engine, ok)
  /\ op' = Op("fallbackPoll", "none", 0, "none")
  /\ UNCHANGED <<pc, deviceFound, seekMuteMs, reg12, reg21, lBal, rBal,
                 seekInterceptInstalled, callbackRegistered, seekTimers, config, engine>>
  /\ UNCHANGED <<volumioSocket, socketConnected, reconnectAttempts, reconnectTimer,
                 reconnectDue, socketFailedSince, fallbackPoller, now, failures>>

\* The instants at which a pending timer is due.
DueTimes ==
  (IF reconnectTimer # NoTimer THEN {reconnectDue} ELSE {})
    \cup (IF fallbackPoller THEN {pollerDue} ELSE {})

\* Time passes up to the next instant at which a timer is due.
Tick ==
  /\ DueTimes # {}
  /\ \A d \in DueTimes : now < d
  /\ \E d \in DueTimes :
       /\ \A e \in DueTimes : d <= e
       /\ d <= MaxTime
       /\ now' = d
  /\ op' = NoOp
  /\ trace' = <<>>
  /\ UNCHANGED <<volumioSocket, socketConnected, reconnectAttempts, reconnectTimer,
                 reconnectDue, socketFailedSince, fallbackPoller, pollerDue, failures>>
  /\ UNCHANGED coreVars

NextSocket ==
  \/ (OnStart /\ UNCHANGED historyVars)
  \/ (StartAbsent /\ UNCHANGED historyVars)
  \/ (StartFound /\ UNCHANGED historyVars)
  \/ (SocketConnect /\ UNCHANGED historyVars)
  \/ (PushState /\ UNCHANGED historyVars)
  \/ (ConnectError /\ UNCHANGED historyVars)
  \/ (Disconnect /\ UNCHANGED historyVars)
  \/ (ReconnectFire /\ UNCHANGED historyVars)
  \/ (FallbackPoll /\ UNCHANGED historyVars)
  \/ (Tick /\ UNCHANGED historyVars)

SpecSocket == Init /\ [][NextSocket]_vars


----------------------------------------------------------------------------
(* A started controller fed a sequence of states *)

MuteBits(t) == [i \in DOMAIN t |-> MuteBit(t[i].b)]

\* The states the scenario delivers: the volume does not change.
ScenarioStates == {s \in EngineStates : s.volume = 40}

\* Start-up, after which the histories begin: hist[1] is what the controller holds.
ScenarioStart ==
  /\ StartFound
  /\ hist' = <<[status |-> lastStatus', mute |-> FALSE]>>
  /\ w7log' = <<>>
  /\ UNCHANGED <<intentVars, busVars, probeVars, feedVars, wiringVars, linkVars, pollVars>>

\* The engine moves to state s and its pushState arrives.
ScenarioDeliver ==
  /\ volumioSocket = "connected"
  /\ Len(hist) <= MaxHist
  /\ \E s \in ScenarioStates :
       /\ engine' = s
       /\ \E ok \in SyncOutcomes(deviceFound /\ StatusMuteCall(s, lastStatus) # "none") :
            HandleStateChange(s, ok)
       /\ hist' = Append(hist, [status |-> s.status, mute |-> s.mute])
  /\ w7log' = w7log \o MuteBits(Writes(trace', REG_GENERAL))
  /\ op' = Op("pushState", "none", 0, "none")
  /\ UNCHANGED <<pc, deviceFound, seekMuteMs, reg12, reg21, lBal, rBal,
                 seekInterceptInstalled, callbackRegistered, seekTimers, config>>
  /\ UNCHANGED socketVars
  /\ UNCHANGED <<intentVars, busVars, probeVars, feedVars, wiringVars, linkVars, pollVars>>

NextScenario ==
  \/ (OnStart /\ UNCHANGED historyVars)
  \/ ScenarioStart
  \/ (SocketConnect /\ UNCHANGED historyVars)
  \/ ScenarioDeliver

SpecScenario == Init /\ [][NextScenario]_vars

----------------------------------------------------------------------------
(* The mute intents, kept as history while the controller runs *)

\* A state was handed to handleStateChange: the transport intent follows the
\* delivered status, the user intent the delivered mute flag while playing.
DeliveredIntents ==
  IF deviceFound' /\ engine.present
  THEN /\ transportMute' = IF engine.status = "play" THEN FALSE
                           ELSE (transportMute \/ lastStatus = "play")
       /\ userMute' = (engine.status = "play" /\ engine.mute)
  ELSE UNCHANGED intentVars

\* A volume callback reported a mute flag: it counts while the engine plays.
CallbackIntents ==
  /\ userMute' = IF op'.flag # "none" /\ engine.present /\ engine.status = "play"
                 THEN op'.flag = "true" ELSE userMute
  /\ UNCHANGED transportMute

NextMute ==
  \/ (OnStart /\ UNCHANGED historyVars)
  \/ (StartFound /\ DeliveredIntents /\ UNCHANGED <<scenarioVars, busVars, probeVars, feedVars, wiringVars, linkVars, pollVars>>)
  \/ (SocketConnect /\ UNCHANGED historyVars)
  \/ (EngineChange /\ UNCHANGED historyVars)
  \/ (PushState /\ DeliveredIntents /\ UNCHANGED <<scenarioVars, busVars, probeVars, feedVars, wiringVars, linkVars, pollVars>>)
  \/ (VolumeCallback /\ CallbackIntents /\ UNCHANGED <<scenarioVars, busVars, probeVars, feedVars, wiringVars, linkVars, pollVars>>)
  \/ (Seek /\ UNCHANGED historyVars)
  \/ (SeekTimerFire /\ UNCHANGED historyVars)

SpecMute == Init /\ [][NextMute]_vars


----------------------------------------------------------------------------
(* The three feeds of handleStateChange over one run of connection failures *)

NextFeeds ==
  \/ (OnStart /\ UNCHANGED historyVars)
  \/ (StartFound /\ UNCHANGED historyVars)
  \/ (EngineChange /\ UNCHANGED historyVars)
  \/ (SocketConnect /\ UNCHANGED historyVars)
  \/ (PushState /\ UNCHANGED historyVars)
  \/ (ConnectError /\ UNCHANGED historyVars)
  \/ (ReconnectFire /\ UNCHANGED historyVars)
  \/ (FallbackPoll /\ UNCHANGED historyVars)
  \/ (Tick /\ UNCHANGED historyVars)

SpecFeeds == Init /\ [][NextFeeds]_vars

----------------------------------------------------------------------------
(* The bus: i2cWrite's timers, the i2cset processes, the device's registers *)

\* i2cWrite's delay, computed when the write is submitted.
I2cDelay(clock, last) == Max(0, I2C_THROTTLE_MS - (clock - last))

\* The writes a handler submitted to i2cWrite, in program order.
AsyncWrites(t) == SelectSeq(t, LAMBDA e : e.ev = "async")

\* The timers i2cWrite sets for them: all computed from the same clock and the
\* same lastI2cWrite, since no callback runs inside the handler's turn.
Timers(t, clock, last, n) ==
  LET ws == AsyncWrites(t)
  IN [i \in 1..Len(ws) |->
        [reg |-> ws[i].a, val |-> ws[i].b, due |-> clock + I2cDelay(clock, last),
         seq |-> n + i]]

\* The device's registers after the synchronous writes of a turn that succeeded.
SyncApplied(d, t) ==
  [r \in ShadowRegs |->
     LET ws == SelectSeq(t, LAMBDA e : e.ev = "sync" /\ e.ok /\ e.a = r)
     IN IF ws = <<>> THEN d[r] ELSE [val |-> ws[Len(ws)].b, seq |-> d[r].seq]]

\* What a handler's turn does to the bus: execSync writes complete in the turn,
\* i2cWrite only sets timers.
BusTurn ==
  /\ asyncQueue' = asyncQueue \o Timers(trace', now, lastI2cWrite, nextSeq)
  /\ nextSeq' = nextSeq + Len(AsyncWrites(trace'))
  /\ nextSeq' <= MaxWrites
  /\ dev' = SyncApplied(dev, trace')
  /\ busFailed' = (busFailed \/ \E i \in DOMAIN trace' :
                                   trace'[i].ev = "sync" /\ ~trace'[i].ok)
  /\ UNCHANGED <<lastI2cWrite, inflight>>

\* The oldest timer of i2cWrite fires: exec starts an i2cset process.
I2cStart ==
  /\ asyncQueue # <<>>
  /\ asyncQueue[1].due <= now
  /\ Cardinality(inflight) < MaxInflight
  /\ inflight' = inflight \cup {[reg |-> asyncQueue[1].reg, val |-> asyncQueue[1].val,
                                 seq |-> asyncQueue[1].seq]}
  /\ asyncQueue' = Tail(asyncQueue)
  /\ op' = Op("i2cStart", "none", 0, "none")
  /\ trace' = <<>>
  /\ UNCHANGED <<lastI2cWrite, dev, nextSeq, busFailed>>
  /\ UNCHANGED <<coreVars, socketVars>>

\* An i2cset process ends and exec's callback runs; the write took effect on the
\* device unless the process failed.
I2cDone ==
  /\ \E w \in inflight, ok \in BOOLEAN :
       /\ inflight' = inflight \ {w}
       /\ dev' = IF ok /\ w.reg \in ShadowRegs
                 THEN [dev EXCEPT ![w.reg] = [val |-> w.val, seq |-> w.seq]]
                 ELSE dev
       /\ busFailed' = (busFailed \/ ~ok)
       /\ op' = Op("i2cDone", "none", 0, "none")
  /\ lastI2cWrite' = now
  /\ trace' = <<>>
  /\ UNCHANGED <<asyncQueue, nextSeq>>
  /\ UNCHANGED <<coreVars, socketVars>>

\* Time passes up to the instant at which the oldest timer of i2cWrite is due.
BusTick ==
  /\ asyncQueue # <<>>
  /\ now < asyncQueue[1].due
  /\ now' = asyncQueue[1].due
  /\ op' = NoOp
  /\ trace' = <<>>
  /\ UNCHANGED <<volumioSocket, socketConnected, reconnectAttempts, reconnectTimer,
                 reconnectDue, socketFailedSince, fallbackPoller, pollerDue, failures>>
  /\ UNCHANGED <<coreVars, busVars>>

\* The engine has no state yet when the controller is constructed.
InitBus == Init /\ engine = NoState

NextBus ==
  \/ (OnStart /\ BusTurn /\ UNCHANGED <<scenarioVars, intentVars, probeVars, feedVars, wiringVars, linkVars, pollVars>>)
  \/ (StartFound /\ BusTurn /\ UNCHANGED <<scenarioVars, intentVars, probeVars, feedVars, wiringVars, linkVars, pollVars>>)
  \/ (VolumeCallback /\ BusTurn /\ UNCHANGED <<scenarioVars, intentVars, probeVars, feedVars, wiringVars, linkVars, pollVars>>)
  \/ (I2cStart /\ UNCHANGED <<scenarioVars, intentVars, probeVars, feedVars, wiringVars, linkVars, pollVars>>)
  \/ (I2cDone /\ UNCHANGED <<scenarioVars, intentVars, probeVars, feedVars, wiringVars, linkVars, pollVars>>)
  \/ (BusTick /\ UNCHANGED <<scenarioVars, intentVars, probeVars, feedVars, wiringVars, linkVars, pollVars>>)

SpecBus == InitBus /\ [][NextBus]_vars

----------------------------------------------------------------------------
(* Settings handlers and stop hooks *)

\* A field the UI left out of the data it sent.
NoMode == -1

BalanceInputs == {-10, 0}
FirInputs == {NoMode, 3}
IirInputs == {NoMode, 4}
DeemphasisInputs == {NoMode, 74}
DpllInputs == {NoMode, 112}

\* setBalance: the offsets, the stored balance, and the volume sent again if one
\* was ever applied.
SetBalanceFx(balance, lv) ==
  LET lb == IF balance > 0 THEN Min(balance, 40) ELSE 0
      rb == IF balance < 0 THEN Min(0 - balance, 40) ELSE 0
  IN [lBal |-> lb, rBal |-> rb,
      trace |-> IF lv # NoVolume THEN SetVolume(lv, lb, rb) ELSE <<>>]

\* saveBalanceSettings (balance from the UI) and resetBalance (balance 0).
SaveBalanceSettingsOver(balances) ==
  /\ pc = "running"
  /\ \E balance \in balances :
       LET fx == SetBalanceFx(balance, lastVolume)
       IN /\ lBal' = fx.lBal
          /\ rBal' = fx.rBal
          /\ config' = [config EXCEPT !.balance = balance]
          /\ trace' = fx.trace
  /\ op' = Op("saveBalanceSettings", "none", 0, "none")
  /\ UNCHANGED <<pc, deviceFound, lastStatus, lastVolume, seekMuteMs, reg7, reg12, reg21,
                 seekInterceptInstalled, callbackRegistered, seekTimers, engine>>
  /\ UNCHANGED socketVars

SaveBalanceSettings == SaveBalanceSettingsOver(BalanceInputs)

ResetBalance ==
  /\ pc = "running"
  /\ LET fx == SetBalanceFx(0, lastVolume)
     IN /\ lBal' = fx.lBal
        /\ rBal' = fx.rBal
        /\ config' = [config EXCEPT !.balance = 0]
        /\ trace' = fx.trace
  /\ op' = Op("resetBalance", "none", 0, "none")
  /\ UNCHANGED <<pc, deviceFound, lastStatus, lastVolume, seekMuteMs, reg7, reg12, reg21,
                 seekInterceptInstalled, callbackRegistered, seekTimers, engine>>
  /\ UNCHANGED socketVars

\* saveFilterSettings as a function of the shadows and the fields sent.
SaveFilterSettingsFx(r7, r21, cfg, fir, iir, deemphasis) ==
  LET f == IF fir # NoMode THEN SetFirFilter(r7, r21, fir)
           ELSE [reg7 |-> r7, reg21 |-> r21, trace |-> <<>>]
      g == IF iir # NoMode THEN SetIirFilter(f.reg7, f.reg21, iir)
           ELSE [reg7 |-> f.reg7, reg21 |-> f.reg21, trace |-> <<>>]
      d == IF deemphasis # NoMode THEN SetDeemphasis(deemphasis) ELSE <<>>
  IN [reg7 |-> g.reg7, reg21 |-> g.reg21,
      config |-> [cfg EXCEPT !.fir = IF fir # NoMode THEN fir ELSE @,
                             !.iir = IF iir # NoMode THEN iir ELSE @,
                             !.deemphasis = IF deemphasis # NoMode THEN deemphasis ELSE @],
      trace |-> f.trace \o g.trace \o d]

SaveFilterSettingsOver(firs, iirs, deemphases) ==
  /\ pc = "running"
  /\ \E fir \in firs, iir \in iirs, deemphasis \in deemphases :
       LET fx == SaveFilterSettingsFx(reg7, reg21, config, fir, iir, deemphasis)
       IN /\ reg7' = fx.reg7
          /\ reg21' = fx.reg21
          /\ config' = fx.config
          /\ trace' = fx.trace
  /\ op' = Op("saveFilterSettings", "none", 0, "none")
  /\ UNCHANGED <<pc, deviceFound, lastStatus, lastVolume, seekMuteMs, reg12, lBal, rBal,
                 seekInterceptInstalled, callbackRegistered, seekTimers, engine>>
  /\ UNCHANGED socketVars

SaveFilterSettings == SaveFilterSettingsOver(FirInputs, IirInputs, DeemphasisInputs)

\* saveDpllSettings: a missing (or zero) value is replaced by its default.
SaveDpllSettings ==
  /\ pc = "running"
  /\ \E i2s \in DpllInputs, dsd \in {NoMode, 10} :
       LET i2sValue == IF i2s = NoMode THEN 80 ELSE i2s
           dsdValue == IF dsd = NoMode THEN 10 ELSE dsd
           fx == SetDpll(i2sValue, dsdValue)
       IN /\ reg12' = fx.reg12
          /\ config' = [config EXCEPT !.i2sDpll = i2sValue, !.dsdDpll = dsdValue]
          /\ trace' = fx.trace
  /\ op' = Op("saveDpllSettings", "none", 0, "none")
  /\ UNCHANGED <<pc, deviceFound, lastStatus, lastVolume, seekMuteMs, reg7, reg21, lBal,
                 rBal, seekInterceptInstalled, callbackRegistered, seekTimers, engine>>
  /\ UNCHANGED socketVars

\* resetDevice: nothing but a toast without the device; otherwise the defaults are
\* stored and loaded, and initDevice and applySettings run again.
ResetDevice ==
  /\ pc = "running"
  /\ IF ~deviceFound
     THEN /\ trace' = <<>>
          /\ UNCHANGED <<reg7, reg12, reg21, lBal, rBal, seekMuteMs, config>>
     ELSE \E ok1 \in BOOLEAN, ok2 \in BOOLEAN :
            LET ini == InitDeviceFx(reg7, 0, 0, ok1, ok2)
                app == ApplySettingsFx(ini.reg7, reg21, DefaultConfig)
            IN /\ config' = DefaultConfig
               /\ seekMuteMs' = LoadConfig(DefaultConfig).seekMuteMs
               /\ lBal' = LoadConfig(DefaultConfig).lBal
               /\ rBal' = LoadConfig(DefaultConfig).rBal
               /\ reg7' = app.reg7
               /\ reg21' = app.reg21
               /\ reg12' = app.reg12
               /\ trace' = ini.trace \o app.trace
  /\ op' = Op("resetDevice", "none", 0, "none")
  /\ UNCHANGED <<pc, deviceFound, lastStatus, lastVolume, seekInterceptInstalled,
                 callbackRegistered, seekTimers, engine>>
  /\ UNCHANGED socketVars

\* What the stop hooks do to the DAC: muted if the device was found.
StopMuteFx(found, r7, ok) ==
  [reg7 |-> IF found THEN MuteByte(r7, TRUE) ELSE r7,
   trace |-> IF found THEN SetMuteSync(r7, TRUE, ok) ELSE <<>>]

\* A variant that leaves a pending reconnect timer alone.
StopSocketConnectionFx_LeavesTimer(timer, poller, sock) ==
  [reconnectTimer |-> timer, reconnectDue |-> reconnectDue,
   fallbackPoller |-> FALSE, pollerDue |-> NoTime,
   volumioSocket |-> "none", socketConnected |-> FALSE,
   trace |-> StopFallbackPoller(poller)
               \o (IF sock # "none" THEN <<CloseEv>> ELSE <<>>)]

\* stopSocketConnection: the reconnect timer is cleared if one is set, the
\* fallback poller stopped, the socket stripped of its listeners and closed.
StopSocketConnectionFx(timer, poller, sock) ==
  [reconnectTimer |-> NoTimer, reconnectDue |-> NoTime,
   fallbackPoller |-> FALSE, pollerDue |-> NoTime,
   volumioSocket |-> "none", socketConnected |-> FALSE,
   trace |-> (IF timer # NoTimer THEN <<ClearTimeoutEv>> ELSE <<>>)
               \o StopFallbackPoller(poller)
               \o (IF sock # "none" THEN <<CloseEv>> ELSE <<>>)]

\* onStop: the seek intercept is removed, the socket, its reconnect timer and the
\* fallback poller are stopped, the DAC is muted.  The function registered with
\* addCallback stays registered (stopVolumeSync only forgets its own reference),
\* and pending seek timers stay pending.
OnStop ==
  /\ pc = "running"
  /\ pc' = "stopped"
  /\ seekInterceptInstalled' = FALSE
  /\ \E ok \in SyncOutcomes(deviceFound) :
       LET ssc == StopSocketConnectionFx(reconnectTimer, fallbackPoller, volumioSocket)
           fx == StopMuteFx(deviceFound, reg7, ok)
       IN /\ reconnectTimer' = ssc.reconnectTimer
          /\ reconnectDue' = ssc.reconnectDue
          /\ fallbackPoller' = ssc.fallbackPoller
          /\ pollerDue' = ssc.pollerDue
          /\ volumioSocket' = ssc.volumioSocket
          /\ socketConnected' = ssc.socketConnected
          /\ reg7' = fx.reg7
          /\ trace' = ssc.trace \o fx.trace
  /\ op' = Op("onStop", "none", 0, "none")
  /\ UNCHANGED <<deviceFound, lastStatus, lastVolume, seekMuteMs, reg12, reg21, lBal, rBal,
                 callbackRegistered, seekTimers, config, engine>>
  /\ UNCHANGED <<reconnectAttempts, socketFailedSince, now, failures>>

\* onVolumioShutdown and onVolumioReboot: the seek intercept is removed and the
\* DAC is muted.
OnVolumioShutdown ==
  /\ pc = "running"
  /\ seekInterceptInstalled' = FALSE
  /\ \E ok \in SyncOutcomes(deviceFound) :
       LET fx == StopMuteFx(deviceFound, reg7, ok)
       IN /\ reg7' = fx.reg7
          /\ trace' = fx.trace
  /\ op' = Op("onVolumioShutdown", "none", 0, "none")
  /\ UNCHANGED <<pc, deviceFound, lastStatus, lastVolume, seekMuteMs, reg12, reg21, lBal,
                 rBal, callbackRegistered, seekTimers, config, engine>>
  /\ UNCHANGED socketVars

\* The engine plays unmuted when the controller is built.
InitSettings ==
  Init /\ engine = [present |-> TRUE, status |-> "play", volume |-> 40, mute |-> FALSE]

NextSettings ==
  \/ (OnStart /\ UNCHANGED historyVars)
  \/ (StartAbsent /\ UNCHANGED historyVars)
  \/ (StartFound /\ UNCHANGED historyVars)
  \/ (CheckDeviceStatus /\ UNCHANGED historyVars)
  \/ (SocketConnect /\ UNCHANGED historyVars)
  \/ (PushState /\ UNCHANGED historyVars)
  \/ (VolumeCallback /\ UNCHANGED historyVars)
  \/ (Seek /\ UNCHANGED historyVars)
  \/ (SeekTimerFire /\ UNCHANGED historyVars)
  \/ (SaveBalanceSettings /\ UNCHANGED historyVars)
  \/ (ResetBalance /\ UNCHANGED historyVars)
  \/ (SaveFilterSettings /\ UNCHANGED historyVars)
  \/ (SaveDpllSettings /\ UNCHANGED historyVars)
  \/ (ResetDevice /\ UNCHANGED historyVars)
  \/ (OnStop /\ UNCHANGED historyVars)
  \/ (OnVolumioShutdown /\ UNCHANGED historyVars)

SpecSettings == InitSettings /\ [][NextSettings]_vars

----------------------------------------------------------------------------
(* The volume curve over the whole range *)

AllVolumes == 0..100

\* The engine plays at volume 40, unmuted, when the controller is built.
InitVolumes ==
  Init /\ engine = [present |-> TRUE, status |-> "play", volume |-> 40, mute |-> FALSE]

NextVolumes ==
  \/ (OnStart /\ UNCHANGED historyVars)
  \/ (StartFound /\ UNCHANGED historyVars)
  \/ (VolumeCallbackOver(AllVolumes) /\ UNCHANGED historyVars)

SpecVolumes == InitVolumes /\ [][NextVolumes]_vars

----------------------------------------------------------------------------
(* Volume and balance over their extremes, across a restart *)

\* Volumes the engine may deliver: the ends of the range and one above it.
LevelVolumes == {0, 100, 150}

\* Balances the UI may send: within the offsets' range and beyond it.
LevelBalances == {-60, 0, 25}

\* The constructor, run by a new process after the plugin was stopped: every
\* field takes its initial value; the configuration file keeps what was stored.
Construct ==
  /\ pc = "stopped"
  /\ pc' = "constructed"
  /\ deviceFound' = FALSE
  /\ lastStatus' = "null"
  /\ lastVolume' = NoVolume
  /\ seekMuteMs' = DefaultSeekMuteMs
  /\ reg7' = 128
  /\ reg12' = 90
  /\ reg21' = 0
  /\ lBal' = 0
  /\ rBal' = 0
  /\ seekInterceptInstalled' = FALSE
  /\ callbackRegistered' = FALSE
  /\ seekTimers' = 0
  /\ volumioSocket' = "none"
  /\ socketConnected' = FALSE
  /\ reconnectAttempts' = 0
  /\ reconnectTimer' = NoTimer
  /\ reconnectDue' = NoTime
  /\ socketFailedSince' = NoTime
  /\ fallbackPoller' = FALSE
  /\ pollerDue' = NoTime
  /\ op' = Op("construct", "none", 0, "none")
  /\ trace' = <<>>
  /\ UNCHANGED <<config, engine, now, failures>>

NextLevels ==
  \/ (OnStart /\ UNCHANGED historyVars)
  \/ (StartFound /\ UNCHANGED historyVars)
  \/ (VolumeCallbackOver(LevelVolumes) /\ UNCHANGED historyVars)
  \/ (SaveBalanceSettingsOver(LevelBalances) /\ UNCHANGED historyVars)
  \/ (OnStop /\ UNCHANGED historyVars)
  \/ (Construct /\ UNCHANGED historyVars)

SpecLevels == InitVolumes /\ [][NextLevels]_vars

----------------------------------------------------------------------------
(* The seek-mute duration over the whole input range *)

\* What the UI may send as seekMuteMs: negative, zero, in range, at and above
\* the upper limit, or no number at all (text, or the field missing).
WideSeekMuteInputs ==
  {[num |-> TRUE, val |-> v] : v \in {-5, 0, 1, 150, 2000, 2500}} \cup {NotANumber}

NextSeekMute ==
  \/ (OnStart /\ UNCHANGED historyVars)
  \/ (StartFound /\ UNCHANGED historyVars)
  \/ (SaveDeviceSettingsOver(WideSeekMuteInputs) /\ UNCHANGED historyVars)
  \/ (Seek /\ UNCHANGED historyVars)
  \/ (SeekTimerFire /\ UNCHANGED historyVars)

SpecSeekMute == InitVolumes /\ [][NextSeekMute]_vars

----------------------------------------------------------------------------
(* The register mutators over every filter mode *)

\* The modes setFirFilter and setIirFilter distinguish.
FirModes == 0..3
IirModes == 0..4

NextFilters ==
  \/ (OnStart /\ UNCHANGED historyVars)
  \/ (StartAbsent /\ UNCHANGED historyVars)
  \/ (StartFound /\ UNCHANGED historyVars)
  \/ (SaveFilterSettingsOver(FirModes \cup {NoMode}, IirModes \cup {NoMode}, {NoMode})
        /\ UNCHANGED historyVars)
  \/ (VolumeCallback /\ UNCHANGED historyVars)
  \/ (Seek /\ UNCHANGED historyVars)
  \/ (SeekTimerFire /\ UNCHANGED historyVars)

SpecFilters == InitVolumes /\ [][NextFilters]_vars

----------------------------------------------------------------------------
(* Overlapping detection probes *)

\* Probes started by the settings page within one run.
MaxProbes == 2

\* saveI2cSettings: bus and address are stored and checkDeviceStatus starts a
\* detection read (an i2cget child process); nothing waits for an earlier one.
SaveI2cSettings ==
  /\ pc = "running"
  /\ probeSeq < MaxProbes
  /\ probeSeq' = probeSeq + 1
  /\ probes' = probes \cup {probeSeq + 1}
  /\ op' = Op("saveI2cSettings", "none", probeSeq + 1, "none")
  /\ trace' = <<ReadEv(64)>>
  /\ UNCHANGED probeResult
  /\ UNCHANGED coreVars
  /\ UNCHANGED socketVars

\* The .then of checkDeviceStatus, when the read of some probe completes (child
\* processes end in any order): deviceFound takes that probe's result.
ProbeDone ==
  /\ \E id \in probes, found \in ProbeResults :
       /\ probes' = probes \ {id}
       /\ probeResult' = probeResult \cup {[id |-> id, found |-> found]}
       /\ deviceFound' = found
       /\ op' = Op("probeDone", IF found THEN "true" ELSE "false", id, "none")
  /\ trace' = <<>>
  /\ UNCHANGED probeSeq
  /\ UNCHANGED <<pc, lastStatus, lastVolume, seekMuteMs, reg7, reg12, reg21, lBal,
                 rBal, seekInterceptInstalled, callbackRegistered, seekTimers, config,
                 engine>>
  /\ UNCHANGED socketVars

NextProbe ==
  \/ (OnStart /\ UNCHANGED historyVars)
  \/ (StartAbsent /\ UNCHANGED historyVars)
  \/ (StartFound /\ UNCHANGED historyVars)
  \/ (SaveI2cSettings /\ UNCHANGED <<scenarioVars, intentVars, busVars, feedVars, wiringVars, linkVars, pollVars>>)
  \/ (ProbeDone /\ UNCHANGED <<scenarioVars, intentVars, busVars, feedVars, wiringVars, linkVars, pollVars>>)

SpecProbe == InitVolumes /\ [][NextProbe]_vars

----------------------------------------------------------------------------
(* Delivery of every engine change, in order *)

\* Notifications the engine has sent and the controller has not yet handled.
MaxFeed == 3

\* The engine plays or pauses, muted or not, at one volume.
LiveStates ==
  {[present |-> TRUE, status |-> st, volume |-> 40, mute |-> mu] :
     st \in {"play", "pause"}, mu \in BOOLEAN}

PushNote(s) == [kind |-> "push", state |-> s]
VolumeNote(s) == [kind |-> "volume", state |-> s]

\* What the engine sends when it goes to state f: its state to the listeners of
\* pushState and, when the mute flag changed, {vol, mute} to the handlers of
\* volumioupdatevolume, in either order.
Notes(e, f) ==
  IF e.mute # f.mute
  THEN {<<VolumeNote(f), PushNote(f)>>, <<PushNote(f), VolumeNote(f)>>}
  ELSE {<<PushNote(f)>>}

\* One change of the engine, with its notifications queued for the controller.
EngineNotify ==
  /\ pc = "running"
  /\ \E f \in LiveStates : \E notes \in Notes(engine, f) :
       /\ EngineStep(engine, f)
       /\ Len(feed) + Len(notes) <= MaxFeed
       /\ engine' = f
       /\ feed' = feed \o notes
  /\ op' = NoOp
  /\ trace' = <<>>
  /\ UNCHANGED <<pc, deviceFound, lastStatus, lastVolume, seekMuteMs, reg7, reg12,
                 reg21, lBal, rBal, seekInterceptInstalled, callbackRegistered,
                 seekTimers, config>>
  /\ UNCHANGED socketVars

\* handleStateChange called with the oldest notification, a pushed state.
DeliverPush ==
  /\ pc = "running"
  /\ feed # <<>>
  /\ feed[1].kind = "push"
  /\ \E ok \in SyncOutcomes(deviceFound /\ StatusMuteCall(feed[1].state, lastStatus) # "none") :
       HandleStateChange(feed[1].state, ok)
  /\ feed' = Tail(feed)
  /\ op' = Op("pushState", "none", 0, "none")
  /\ UNCHANGED <<pc, deviceFound, seekMuteMs, reg12, reg21, lBal, rBal,
                 seekInterceptInstalled, callbackRegistered, seekTimers, config, engine>>
  /\ UNCHANGED socketVars

\* The volume callback called with the oldest notification; the state it pulls
\* is the engine's state at the time of the call.
DeliverVolume ==
  /\ callbackRegistered
  /\ feed # <<>>
  /\ feed[1].kind = "volume"
  /\ \E ok \in SyncOutcomes(engine.present /\ engine.status = "play") :
       LET muteFlag == IF feed[1].state.mute THEN "true" ELSE "false"
           fx == VolumeCallbackFx(feed[1].state.volume, muteFlag, engine, lastVolume,
                                  reg7, lBal, rBal, ok)
       IN /\ lastVolume' = fx.lastVolume
          /\ reg7' = fx.reg7
          /\ trace' = fx.trace
          /\ op' = Op("volumeCallback", muteFlag, 0, "none")
  /\ feed' = Tail(feed)
  /\ UNCHANGED <<pc, deviceFound, lastStatus, seekMuteMs, reg12, reg21, lBal, rBal,
                 seekInterceptInstalled, callbackRegistered, seekTimers, config, engine>>
  /\ UNCHANGED socketVars

otherHistory == <<scenarioVars, intentVars, busVars, probeVars, wiringVars, linkVars, pollVars>>

LivePush == DeliverPush /\ UNCHANGED otherHistory
LiveVolume == DeliverVolume /\ UNCHANGED otherHistory
LiveTimer == SeekTimerFire /\ UNCHANGED historyVars

InitLive == Init /\ engine \in LiveStates

NextLive ==
  \/ (OnStart /\ UNCHANGED historyVars)
  \/ (StartFound /\ UNCHANGED historyVars)
  \/ (EngineNotify /\ UNCHANGED otherHistory)
  \/ LivePush
  \/ LiveVolume
  \/ (Seek /\ UNCHANGED historyVars)
  \/ LiveTimer

\* The event loop runs every handler that is due: a notification received is
\* handled, a timer set fires.
SpecLive ==
  /\ InitLive
  /\ [][NextLive]_vars
  /\ WF_vars(LivePush)
  /\ WF_vars(LiveVolume)
  /\ WF_vars(LiveTimer)

----------------------------------------------------------------------------
(* The controller of src/index.js: every write is asynchronous *)

\* setVolume of src/index.js: Math.round((100 - clamp(vol)) * 2.55).  In double
\* arithmetic 50 * 2.55 and 90 * 2.55 fall just below .5 and round down.
IndexAttenuation(vol) ==
  LET x == 100 - Max(0, Min(100, vol))
  IN IF x \in {50, 90} THEN (x * 255) \div 100 ELSE (x * 255 + 50) \div 100

IndexSetVolume(vol, lb, rb) ==
  I2cWrite(REG_VOL_L, Min(255, IndexAttenuation(vol) + lb))
    \o I2cWrite(REG_VOL_R, Min(255, IndexAttenuation(vol) + rb))

\* setMute of src/index.js: the shadow bit, then a throttled write of the shadow.
IndexSetMute(r7, mute) == I2cWrite(REG_GENERAL, MuteByte(r7, mute))

\* The states the socket pushes: a status, a volume, and a mute field that is a
\* boolean or no boolean ("none").
IndexStates == [status : Statuses, volume : Volumes, mute : MuteFlags]

\* handleStateChange of src/index.js with the device found: the status
\* transition, the volume, then the mute flag of the state if it is a boolean.
IndexHandleStateChangeFx(s, ls, lv, r7, lb, rb) ==
  LET muting == s.status # "play" /\ ls = "play"
      unmuting == s.status = "play" /\ ls # "play" /\ s.mute # "true"
      a7 == IF muting THEN MuteByte(r7, TRUE)
            ELSE IF unmuting THEN MuteByte(r7, FALSE) ELSE r7
      t1 == IF muting THEN IndexSetMute(r7, TRUE)
            ELSE IF unmuting THEN IndexSetMute(r7, FALSE) ELSE <<>>
      t2 == IF s.volume # lv THEN IndexSetVolume(s.volume, lb, rb) ELSE <<>>
      b7 == IF s.mute # "none" THEN MuteByte(a7, s.mute = "true") ELSE a7
      t3 == IF s.mute # "none" THEN IndexSetMute(a7, s.mute = "true") ELSE <<>>
  IN [lastStatus |-> s.status, lastVolume |-> s.volume, reg7 |-> b7,
      trace |-> t1 \o t2 \o t3]

\* initDevice of src/index.js.
IndexInitDeviceFx(r7, lb, rb) ==
  LET m7 == MuteByte(r7, TRUE)
      u7 == MuteByte(m7, FALSE)
  IN [reg7 |-> u7,
      trace |-> IndexSetMute(r7, TRUE)
                  \o I2cWrite(0, 0) \o I2cWrite(1, 196) \o I2cWrite(4, 16)
                  \o I2cWrite(5, 104) \o I2cWrite(6, 71) \o I2cWrite(8, 1)
                  \o I2cWrite(REG_DPLL, 95) \o I2cWrite(14, 138)
                  \o I2cWrite(REG_GPIO, 0) \o I2cWrite(27, 212)
                  \o IndexSetVolume(InitVolume, lb, rb)
                  \o IndexSetMute(m7, FALSE)]

\* onStart of src/index.js up to the end of its continuation: loadConfig, the
\* detection read and, with the device found, initDevice, applySettings and
\* startVolumeSync (the socket is opened).
IndexStart ==
  /\ pc = "constructed"
  /\ pc' = "running"
  /\ lBal' = LoadConfig(config).lBal
  /\ rBal' = LoadConfig(config).rBal
  /\ \E readOk \in BOOLEAN, byte \in ProbeBytes :
       LET found == CheckDevice(readOk, byte)
           ini == IndexInitDeviceFx(reg7, lBal', rBal')
           app == ApplySettingsFx(ini.reg7, reg21, config)
       IN /\ deviceFound' = found
          /\ reg7' = IF found THEN app.reg7 ELSE reg7
          /\ reg21' = IF found THEN app.reg21 ELSE reg21
          /\ reg12' = IF found THEN app.reg12 ELSE reg12
          /\ volumioSocket' = IF found THEN "connected" ELSE volumioSocket
          /\ trace' = <<ProbeEv(byte, readOk)>>
                        \o (IF found THEN ini.trace \o app.trace ELSE <<>>)
  /\ op' = Op("indexStart", "none", 0, "resolved")
  /\ UNCHANGED <<lastStatus, lastVolume, seekMuteMs, seekInterceptInstalled,
                 callbackRegistered, seekTimers, config, engine>>
  /\ UNCHANGED <<socketConnected, reconnectAttempts, reconnectTimer, reconnectDue,
                 socketFailedSince, fallbackPoller, pollerDue, now, failures>>

\* The pushState listener of src/index.js.
IndexPushState ==
  /\ volumioSocket = "connected"
  /\ \E s \in IndexStates :
       LET fx == IndexHandleStateChangeFx(s, lastStatus, lastVolume, reg7, lBal, rBal)
       IN /\ lastStatus' = IF deviceFound THEN fx.lastStatus ELSE lastStatus
          /\ lastVolume' = IF deviceFound THEN fx.lastVolume ELSE lastVolume
          /\ reg7' = IF deviceFound THEN fx.reg7 ELSE reg7
          /\ trace' = IF deviceFound THEN fx.trace ELSE <<>>
          /\ op' = Op("indexPushState", s.mute, 0, s.status)
  /\ UNCHANGED <<pc, deviceFound, seekMuteMs, reg12, reg21, lBal, rBal,
                 seekInterceptInstalled, callbackRegistered, seekTimers, config, engine>>
  /\ UNCHANGED socketVars

\* onStop of src/index.js: the socket is closed and the DAC muted.
IndexStop ==
  /\ pc = "running"
  /\ pc' = "stopped"
  /\ volumioSocket' = "none"
  /\ reg7' = IF deviceFound THEN MuteByte(reg7, TRUE) ELSE reg7
  /\ trace' = IF deviceFound THEN IndexSetMute(reg7, TRUE) ELSE <<>>
  /\ op' = Op("indexStop", "none", 0, "none")
  /\ UNCHANGED <<deviceFound, lastStatus, lastVolume, seekMuteMs, reg12, reg21, lBal,
                 rBal, seekInterceptInstalled, callbackRegistered, seekTimers, config,
                 engine>>
  /\ UNCHANGED <<socketConnected, reconnectAttempts, reconnectTimer, reconnectDue,
                 socketFailedSince, fallbackPoller, pollerDue, now, failures>>

NextIndex ==
  \/ (IndexStart /\ UNCHANGED historyVars)
  \/ (IndexPushState /\ UNCHANGED historyVars)
  \/ (IndexStop /\ UNCHANGED historyVars)

SpecIndex == InitVolumes /\ [][NextIndex]_vars

----------------------------------------------------------------------------
(* Installing and removing the seek intercept *)

\* Wrappers the model lets pile up on commandRouter.volumioSeek.
MaxWrappers == 2

\* A variant without the guard on seekInterceptInstalled.
InstallSeekInterceptFx_NoGuard(installed, wrappers) ==
  [installed |-> TRUE, wrappers |-> wrappers + 1]

\* installSeekIntercept: nothing when already installed; otherwise the current
\* volumioSeek is saved (bound) and a wrapper is put in its place.
InstallSeekInterceptFx(installed, wrappers) ==
  IF installed THEN [installed |-> installed, wrappers |-> wrappers]
  ELSE [installed |-> TRUE, wrappers |-> wrappers + 1]

\* removeSeekIntercept: nothing when not installed; otherwise the saved function
\* is put back (originalSeek is set with seekInterceptInstalled and cleared with it).
RemoveSeekInterceptFx(installed, wrappers) ==
  IF ~installed THEN [installed |-> installed, wrappers |-> wrappers]
  ELSE [installed |-> FALSE, wrappers |-> wrappers - 1]

\* A call of commandRouter.volumioSeek that runs through n wrappers: each one
\* mutes, calls what it wrapped, and schedules its unmute.
RECURSIVE SeekCallFx(_, _, _, _, _, _, _)
SeekCallFx(n, pos, res, found, ms, r7, ok) ==
  IF n = 0
  THEN [reg7 |-> r7, trace |-> <<ForwardEv(pos, res)>>, timers |-> 0, ret |-> res]
  ELSE LET w == SeekWrapperFx(pos, res, found, ms, r7, ok)
           inner == SeekCallFx(n - 1, pos, res, found, ms, w.reg7, ok)
       IN [reg7 |-> inner.reg7,
           trace |-> SelectSeq(w.trace, LAMBDA e : e.ev = "sync")
                       \o inner.trace
                       \o SelectSeq(w.trace, LAMBDA e : e.ev = "timer"),
           timers |-> w.timers + inner.timers,
           ret |-> res]

\* A call of installSeekIntercept on the started controller.
InstallSeekIntercept ==
  /\ pc = "running"
  /\ LET fx == InstallSeekInterceptFx(seekInterceptInstalled, seekWrappers)
     IN /\ fx.wrappers <= MaxWrappers
        /\ seekInterceptInstalled' = fx.installed
        /\ seekWrappers' = fx.wrappers
  /\ op' = Op("installSeekIntercept", "none", 0, "none")
  /\ trace' = <<>>
  /\ UNCHANGED <<pc, deviceFound, lastStatus, lastVolume, seekMuteMs, reg7, reg12, reg21,
                 lBal, rBal, callbackRegistered, seekTimers, config, engine>>
  /\ UNCHANGED socketVars

\* A call of removeSeekIntercept.
RemoveSeekIntercept ==
  /\ pc = "running"
  /\ LET fx == RemoveSeekInterceptFx(seekInterceptInstalled, seekWrappers)
     IN /\ seekInterceptInstalled' = fx.installed
        /\ seekWrappers' = fx.wrappers
  /\ op' = Op("removeSeekIntercept", "none", 0, "none")
  /\ trace' = <<>>
  /\ UNCHANGED <<pc, deviceFound, lastStatus, lastVolume, seekMuteMs, reg7, reg12, reg21,
                 lBal, rBal, callbackRegistered, seekTimers, config, engine>>
  /\ UNCHANGED socketVars

\* Somebody calls commandRouter.volumioSeek, whatever is installed there.
SeekCall ==
  /\ pc = "running"
  /\ \E pos \in Positions, res \in SeekResults :
     \E ok \in SyncOutcomes(seekWrappers > 0 /\ deviceFound /\ seekMuteMs > 0) :
       LET fx == SeekCallFx(seekWrappers, pos, res, deviceFound, seekMuteMs, reg7, ok)
       IN /\ seekTimers + fx.timers <= MaxSeekTimers
          /\ reg7' = fx.reg7
          /\ trace' = fx.trace
          /\ seekTimers' = seekTimers + fx.timers
          /\ op' = Op("seekCall", "none", pos, fx.ret)
  /\ UNCHANGED <<pc, deviceFound, lastStatus, lastVolume, seekMuteMs, reg12, reg21,
                 lBal, rBal, seekInterceptInstalled, callbackRegistered,
                 config, engine>>
  /\ UNCHANGED socketVars
  /\ UNCHANGED seekWrappers

\* onStart's continuation with the device found calls installSeekIntercept.
StartInstalls ==
  seekWrappers' = InstallSeekInterceptFx(seekInterceptInstalled, seekWrappers).wrappers

seekHistory == <<scenarioVars, intentVars, busVars, probeVars, feedVars, linkVars, pollVars>>

NextIntercept ==
  \/ (OnStart /\ UNCHANGED historyVars)
  \/ (StartAbsent /\ UNCHANGED historyVars)
  \/ (StartFound /\ StartInstalls /\ UNCHANGED seekHistory)
  \/ (InstallSeekIntercept /\ UNCHANGED seekHistory)
  \/ (RemoveSeekIntercept /\ UNCHANGED seekHistory)
  \/ (SeekCall /\ UNCHANGED seekHistory)
  \/ (SeekTimerFire /\ UNCHANGED historyVars)

SpecIntercept == InitVolumes /\ [][NextIntercept]_vars

----------------------------------------------------------------------------
(* Queued writes and synchronous writes *)

\* The bus under a playing engine, with seeks: the seek wrapper's execSync
\* writes run in their turn while earlier i2cWrite timers are still pending.
\* The writes of start-up are due at once (nothing was written before), so
\* no time needs to pass.
busHistory == <<scenarioVars, intentVars, probeVars, feedVars, wiringVars, linkVars, pollVars>>

NextLand ==
  \/ (OnStart /\ BusTurn /\ UNCHANGED busHistory)
  \/ (StartFound /\ BusTurn /\ UNCHANGED busHistory)
  \/ (Seek /\ BusTurn /\ UNCHANGED busHistory)
  \/ (SeekTimerFire /\ BusTurn /\ UNCHANGED busHistory)
  \/ (I2cStart /\ UNCHANGED busHistory)
  \/ (I2cDone /\ UNCHANGED busHistory)

SpecLand == InitVolumes /\ [][NextLand]_vars

----------------------------------------------------------------------------
(* The connection's timers, intervals and sockets, with stops *)

\* A call of stopSocketConnection, on a running or a stopped controller.
StopSocketConnection ==
  /\ pc \in {"constructed", "starting", "running", "stopped"}
  /\ LET ssc == StopSocketConnectionFx(reconnectTimer, fallbackPoller, volumioSocket)
     IN /\ reconnectTimer' = ssc.reconnectTimer
        /\ reconnectDue' = ssc.reconnectDue
        /\ fallbackPoller' = ssc.fallbackPoller
        /\ pollerDue' = ssc.pollerDue
        /\ volumioSocket' = ssc.volumioSocket
        /\ socketConnected' = ssc.socketConnected
        /\ trace' = ssc.trace
  /\ op' = Op("stopSocketConnection", "none", 0, "none")
  /\ UNCHANGED <<reconnectAttempts, socketFailedSince, now, failures>>
  /\ UNCHANGED coreVars

\* A call of stopFallbackPoller.
StopFallbackPollerCall ==
  /\ pc \in {"constructed", "starting", "running", "stopped"}
  /\ fallbackPoller' = FALSE
  /\ pollerDue' = NoTime
  /\ trace' = StopFallbackPoller(fallbackPoller)
  /\ op' = Op("stopFallbackPoller", "none", 0, "none")
  /\ UNCHANGED <<volumioSocket, socketConnected, reconnectAttempts, reconnectTimer,
                 reconnectDue, socketFailedSince, now, failures>>
  /\ UNCHANGED coreVars

\* The socket that failed raises its second event (disconnect and connect_error
\* for one failure): its listeners are attached until connectSocket replaces it.
FailureAgain ==
  /\ pc = "running"
  /\ volumioSocket = "closed"
  /\ socketConnected' = FALSE
  /\ ScheduleReconnect
  /\ op' = Op("failureAgain", "none", 0, "none")
  /\ UNCHANGED <<volumioSocket, now, failures>>
  /\ UNCHANGED coreVars

Count(t, kind) == Len(SelectSeq(t, LAMBDA e : e.ev = kind))

\* What the handler that just ran did to the timers, intervals and sockets.
LinkTurn ==
  /\ liveTimers' = liveTimers + Count(trace', "timer") - Count(trace', "clearTimeout")
                     - (IF op'.name = "reconnect" THEN 1 ELSE 0)
  /\ liveIntervals' = liveIntervals + Count(trace', "setInterval")
                        - Count(trace', "clearInterval")
  /\ liveSockets' = liveSockets + Count(trace', "open") - Count(trace', "close")

linkHistory == <<scenarioVars, intentVars, busVars, probeVars, feedVars, wiringVars, pollVars>>

LinkConnect == SocketConnect /\ LinkTurn /\ UNCHANGED linkHistory
LinkReconnect == ReconnectFire /\ LinkTurn /\ UNCHANGED linkHistory
LinkPoll == FallbackPoll /\ LinkTurn /\ UNCHANGED linkHistory
LinkTick == Tick /\ LinkTurn /\ UNCHANGED linkHistory

NextLink ==
  \/ (OnStart /\ UNCHANGED historyVars)
  \/ (StartAbsent /\ UNCHANGED historyVars)
  \/ (StartFound /\ LinkTurn /\ UNCHANGED linkHistory)
  \/ LinkConnect
  \/ (ConnectError /\ LinkTurn /\ UNCHANGED linkHistory)
  \/ (Disconnect /\ LinkTurn /\ UNCHANGED linkHistory)
  \/ (FailureAgain /\ LinkTurn /\ UNCHANGED linkHistory)
  \/ LinkReconnect
  \/ LinkPoll
  \/ LinkTick
  \/ (OnStop /\ LinkTurn /\ UNCHANGED linkHistory)
  \/ (StopSocketConnection /\ LinkTurn /\ UNCHANGED linkHistory)
  \/ (StopFallbackPollerCall /\ LinkTurn /\ UNCHANGED linkHistory)

SpecLink == InitVolumes /\ [][NextLink]_vars

\* Time passes, a timer that is due fires, and the engine's endpoint is
\* reachable in the end: of the attempts made again and again, one succeeds.
SpecReach ==
  /\ InitVolumes
  /\ [][NextLink]_vars
  /\ WF_vars(LinkTick)
  /\ WF_vars(LinkReconnect)
  /\ WF_vars(LinkPoll)
  /\ SF_vars(LinkConnect)

----------------------------------------------------------------------------
(* The polling controller: state poll, seek detection, volume callback *)

PollSeeks == {0, 1000, 5000}
PollSeekMuteInputs == {0, 500}
SeekJumpMs == 2000
FastPollMs == 500
SlowPollMs == 3000

PollEv(ms) == [ev |-> "poll", a |-> ms, b |-> 0, ok |-> TRUE]

\* setMute: the shadow bit, then a throttled write of the shadow.
PollSetMute(r7, mute) == I2cWrite(REG_GENERAL, MuteByte(r7, mute))

\* setVolume: 0xFF at volume 0, else round(MIN_GAIN - vol * MIN_GAIN / 100),
\* plus the balance offset of the channel, at most 255.
PollAttenuation(vol) ==
  IF vol <= 0 THEN DAC_MUTE_GAIN
  ELSE RoundDiv100(100 * DAC_MIN_GAIN - vol * DAC_MIN_GAIN)

PollSetVolume(vol, lb, rb) ==
  I2cWrite(REG_VOL_L, Min(255, PollAttenuation(vol) + lb))
    \o I2cWrite(REG_VOL_R, Min(255, PollAttenuation(vol) + rb))

\* initDevice: mute, the register defaults, volume 90%, unmute.
PollInitDeviceFx(r7, lb, rb) ==
  LET m7 == MuteByte(r7, TRUE)
      u7 == MuteByte(m7, FALSE)
  IN [reg7 |-> u7,
      trace |-> PollSetMute(r7, TRUE)
                  \o I2cWrite(0, 0) \o I2cWrite(1, 196) \o I2cWrite(4, 16)
                  \o I2cWrite(5, 104) \o I2cWrite(6, 71) \o I2cWrite(8, 1)
                  \o I2cWrite(REG_DPLL, 95) \o I2cWrite(14, 138)
                  \o I2cWrite(REG_GPIO, 0) \o I2cWrite(27, 212)
                  \o PollSetVolume(InitVolume, lb, rb)
                  \o PollSetMute(m7, FALSE)]

\* handleStateChange for a state s with position seek: mute when play is left,
\* unmute when play is entered with mute false; lastSeek follows the state.
PollHandleStateChangeFx(s, seek, found, ls, lv, lsk, r7, lb, rb) ==
  IF ~found \/ ~s.present
  THEN [lastStatus |-> ls, lastVolume |-> lv, lastSeek |-> lsk, reg7 |-> r7, trace |-> <<>>]
  ELSE LET call == IF s.status \in {"stop", "pause"}
                   THEN (IF ls = "play" THEN "true" ELSE "none")
                   ELSE IF ls # "play" /\ ~s.mute THEN "false" ELSE "none"
           n7 == IF call = "none" THEN r7 ELSE MuteByte(r7, call = "true")
           t7 == IF call = "none" THEN <<>> ELSE PollSetMute(r7, call = "true")
           tv == IF s.volume # lv THEN PollSetVolume(s.volume, lb, rb) ELSE <<>>
       IN [lastStatus |-> s.status, lastVolume |-> s.volume, lastSeek |-> seek,
           reg7 |-> n7, trace |-> t7 \o tv]

\* A variant that mutes and schedules the unmute whatever the mute bit.
MuteForSeekFx_AlwaysArms(ms, r7) ==
  LET armed == ms > 0
  IN [reg7 |-> IF armed THEN MuteByte(r7, TRUE) ELSE r7,
      trace |-> IF armed THEN PollSetMute(r7, TRUE) \o <<TimerEv(ms)>> ELSE <<>>,
      timers |-> IF armed THEN 1 ELSE 0]

\* muteForSeek: nothing with seek mute disabled or with the mute bit set;
\* otherwise mute and set the unmute timer.
MuteForSeekFx(ms, r7) ==
  LET armed == ms > 0 /\ ~MuteBit(r7)
  IN [reg7 |-> IF armed THEN MuteByte(r7, TRUE) ELSE r7,
      trace |-> IF armed THEN PollSetMute(r7, TRUE) \o <<TimerEv(ms)>> ELSE <<>>,
      timers |-> IF armed THEN 1 ELSE 0]

\* A variant that unmutes whatever the engine's state.
PollTimerFx_IgnoreState(st, r7) ==
  [reg7 |-> MuteByte(r7, FALSE), trace |-> PollSetMute(r7, FALSE)]

\* The unmute timer of muteForSeek: unmute if the engine plays with mute false.
PollTimerFx(st, r7) ==
  LET clear == st.present /\ st.status = "play" /\ ~st.mute
  IN [reg7 |-> IF clear THEN MuteByte(r7, FALSE) ELSE r7,
      trace |-> IF clear THEN PollSetMute(r7, FALSE) ELSE <<>>]

Abs(x) == IF x < 0 THEN 0 - x ELSE x

\* doPoll for the state st with position seek: a status change goes to
\* handleStateChange; while playing, a jump of the position by more than 2 s
\* is a seek; the next poll is set at the rate of the status.
DoPollFx(st, seek, found, ls, lv, lsk, ms, r7, lb, rb) ==
  IF ~st.present
  THEN [lastStatus |-> ls, lastVolume |-> lv, lastSeek |-> lsk, reg7 |-> r7,
        timers |-> 0, detected |-> FALSE, trace |-> <<PollEv(SlowPollMs)>>]
  ELSE LET hsc == IF st.status # ls
                  THEN PollHandleStateChangeFx(st, seek, found, ls, lv, lsk, r7, lb, rb)
                  ELSE [lastStatus |-> ls, lastVolume |-> lv, lastSeek |-> lsk,
                        reg7 |-> r7, trace |-> <<>>]
           playing == st.status = "play"
           from == IF hsc.lastSeek = NoSeek THEN 0 ELSE hsc.lastSeek
           detect == playing /\ Abs(seek - from) > SeekJumpMs /\ hsc.lastSeek # NoSeek
           mfs == IF detect THEN MuteForSeekFx(ms, hsc.reg7)
                  ELSE [reg7 |-> hsc.reg7, trace |-> <<>>, timers |-> 0]
       IN [lastStatus |-> hsc.lastStatus, lastVolume |-> hsc.lastVolume,
           lastSeek |-> IF playing THEN seek ELSE hsc.lastSeek,
           reg7 |-> mfs.reg7, timers |-> mfs.timers, detected |-> detect,
           trace |-> hsc.trace \o mfs.trace
                       \o <<PollEv(IF playing THEN FastPollMs ELSE SlowPollMs)>>]

\* The volume callback: a new volume is written, a boolean mute flag is applied.
PollVolumeCallbackFx(vol, muteFlag, lv, r7, lb, rb) ==
  LET tv == IF vol # lv THEN PollSetVolume(vol, lb, rb) ELSE <<>>
      n7 == IF muteFlag # "none" THEN MuteByte(r7, muteFlag = "true") ELSE r7
      t7 == IF muteFlag # "none" THEN PollSetMute(r7, muteFlag = "true") ELSE <<>>
  IN [lastVolume |-> vol, reg7 |-> n7, trace |-> tv \o t7]

\* onStart to the end of its continuation: loadConfig (ms is the seek-mute time
\* the configuration file holds), the detection read and, with the device
\* found, initDevice, applySettings and startVolumeSync: the engine's state goes
\* to handleStateChange, the callback is registered, the first poll is set.
PollStart ==
  /\ pc = "constructed"
  /\ pc' = "running"
  /\ lBal' = LoadConfig(config).lBal
  /\ rBal' = LoadConfig(config).rBal
  /\ \E ms \in PollSeekMuteInputs, readOk \in BOOLEAN, byte \in {0, 144} :
       LET found == CheckDevice(readOk, byte)
           ini == PollInitDeviceFx(reg7, lBal', rBal')
           app == ApplySettingsFx(ini.reg7, reg21, config)
           hsc == PollHandleStateChangeFx(engine, engineSeek, TRUE, lastStatus, lastVolume,
                                          lastSeek, app.reg7, lBal', rBal')
       IN /\ seekMuteMs' = ms
          /\ config' = [config EXCEPT !.seekMuteMs = ms]
          /\ deviceFound' = found
          /\ reg7' = IF found THEN hsc.reg7 ELSE reg7
          /\ reg21' = IF found THEN app.reg21 ELSE reg21
          /\ reg12' = IF found THEN app.reg12 ELSE reg12
          /\ lastStatus' = IF found THEN hsc.lastStatus ELSE lastStatus
          /\ lastVolume' = IF found THEN hsc.lastVolume ELSE lastVolume
          /\ lastSeek' = IF found /\ engine.present THEN engineSeek ELSE lastSeek
          /\ callbackRegistered' = found
          /\ trace' = <<ProbeEv(byte, readOk)>>
                        \o (IF found
                            THEN ini.trace \o app.trace \o hsc.trace \o <<PollEv(SlowPollMs)>>
                            ELSE <<>>)
  /\ op' = Op("pollStart", "none", 0, "resolved")
  /\ UNCHANGED <<seekInterceptInstalled, seekTimers, engine, engineSeek>>
  /\ UNCHANGED socketVars

\* The engine changes its status, volume, mute flag or position.
PollEngineChange ==
  /\ pc = "running"
  /\ \E f \in {e \in EngineStates : e.volume = 40} \cup {NoState}, k \in PollSeeks :
       /\ <<f, k>> # <<engine, engineSeek>>
       /\ engine' = f
       /\ engineSeek' = k
  /\ op' = NoOp
  /\ trace' = <<>>
  /\ UNCHANGED <<pc, deviceFound, lastStatus, lastVolume, seekMuteMs, reg7, reg12, reg21,
                 lBal, rBal, seekInterceptInstalled, callbackRegistered, seekTimers,
                 config, lastSeek>>
  /\ UNCHANGED socketVars

\* The poll timer fires: doPoll.
DoPoll ==
  /\ pc = "running"
  /\ deviceFound
  /\ LET fx == DoPollFx(engine, engineSeek, deviceFound, lastStatus, lastVolume, lastSeek,
                        seekMuteMs, reg7, lBal, rBal)
     IN /\ seekTimers + fx.timers <= MaxSeekTimers
        /\ lastStatus' = fx.lastStatus
        /\ lastVolume' = fx.lastVolume
        /\ lastSeek' = fx.lastSeek
        /\ reg7' = fx.reg7
        /\ seekTimers' = seekTimers + fx.timers
        /\ trace' = fx.trace
        /\ op' = Op("doPoll", IF fx.detected THEN "seek" ELSE "none", engineSeek,
                    engine.status)
  /\ UNCHANGED <<pc, deviceFound, seekMuteMs, reg12, reg21, lBal, rBal,
                 seekInterceptInstalled, callbackRegistered, config, engine, engineSeek>>
  /\ UNCHANGED socketVars

\* The engine calls the volume callback.
PollVolumeCallback ==
  /\ callbackRegistered
  /\ \E vol \in Volumes, muteFlag \in MuteFlags :
       LET fx == PollVolumeCallbackFx(vol, muteFlag, lastVolume, reg7, lBal, rBal)
       IN /\ lastVolume' = fx.lastVolume
          /\ reg7' = fx.reg7
          /\ trace' = fx.trace
          /\ op' = Op("pollVolumeCallback", muteFlag, 0, "none")
  /\ UNCHANGED <<pc, deviceFound, lastStatus, seekMuteMs, reg12, reg21, lBal, rBal,
                 seekInterceptInstalled, callbackRegistered, seekTimers, config, engine,
                 lastSeek, engineSeek>>
  /\ UNCHANGED socketVars

\* An unmute timer of muteForSeek expires.
PollTimerFire ==
  /\ seekTimers > 0
  /\ LET fx == PollTimerFx(engine, reg7)
     IN /\ reg7' = fx.reg7
        /\ trace' = fx.trace
  /\ seekTimers' = seekTimers - 1
  /\ op' = Op("pollSeekTimer", "none", 0, "none")
  /\ UNCHANGED <<pc, deviceFound, lastStatus, lastVolume, seekMuteMs, reg12, reg21,
                 lBal, rBal, seekInterceptInstalled, callbackRegistered, config, engine,
                 lastSeek, engineSeek>>
  /\ UNCHANGED socketVars

pollHistory == <<scenarioVars, intentVars, busVars, probeVars, feedVars, wiringVars, linkVars>>

NextPoll ==
  \/ (PollStart /\ UNCHANGED pollHistory)
  \/ (PollEngineChange /\ UNCHANGED pollHistory)
  \/ (DoPoll /\ UNCHANGED pollHistory)
  \/ (PollVolumeCallback /\ UNCHANGED pollHistory)
  \/ (PollTimerFire /\ UNCHANGED pollHistory)

SpecPoll == InitVolumes /\ [][NextPoll]_vars

----------------------------------------------------------------------------
(* Claims about the seek intercept *)

IsMuteWrite(e) == e.ev = "sync" /\ e.a = REG_GENERAL /\ MuteBit(e.b)
IsUnmuteWrite(e) == e.ev = "sync" /\ e.a = REG_GENERAL /\ ~MuteBit(e.b)

\* C1: in every seek call made while deviceFound is true and seekMuteMs > 0, the
\* call of the original volumioSeek comes after a synchronous write of register
\* 0x07 with the mute bit set: execSync has returned before the seek is forwarded.
C1_MuteBeforeForward ==
  (op.name = "seek" /\ deviceFound /\ seekMuteMs > 0) =>
    /\ Forwards(trace) # <<>>
    /\ \A j \in DOMAIN trace :
         trace[j].ev = "forward" => \E i \in 1..(j - 1) : IsMuteWrite(trace[i])

C1_Witness ==
  /\ op.name = "seek" /\ deviceFound /\ seekMuteMs > 0
  /\ Len(trace) = 3 /\ IsMuteWrite(trace[1]) /\ trace[1].ok /\ trace[2].ev = "forward"

\* C4: every seek call forwards to the original volumioSeek exactly once, with the
\* caller's position, and returns what that call returned: also when the mute write
\* fails, when deviceFound is false and when seekMuteMs is 0.
C4_ForwardedOnceUnchanged ==
  op.name = "seek" =>
    /\ Len(Forwards(trace)) = 1
    /\ Forwards(trace)[1].a = op.pos
    /\ op.ret = IF Forwards(trace)[1].ok THEN "resolved" ELSE "rejected"

C4_Witness ==
  /\ op.name = "seek" /\ op.ret = "resolved" /\ op.pos = 5000
  /\ Len(trace) = 3 /\ IsMuteWrite(trace[1]) /\ ~trace[1].ok
  /\ trace[2] = ForwardEv(5000, "resolved")


\* C5: when a seek-unmute timer expires and the state it pulls is absent, is not
\* play, or has mute true, the expiry makes no bus write and leaves reg7 as it
\* was; otherwise its only write clears the mute bit.
C5_TimerUnmutesOnlyPlayingUnmuted ==
  [][op'.name = "seekTimer" =>
       IF engine.present /\ engine.status = "play" /\ ~engine.mute
       THEN Len(trace') = 1 /\ IsUnmuteWrite(trace'[1]) /\ ~MuteBit(reg7')
       ELSE trace' = <<>> /\ reg7' = reg7]_vars

C5_Witness ==
  /\ op.name = "seekTimer" /\ trace = <<>> /\ MuteBit(reg7)
  /\ engine.present /\ engine.status = "play" /\ engine.mute

----------------------------------------------------------------------------
(* Claims about the state change handler and the volume callback *)

MuteCase == engine.status \in {"pause", "stop"} /\ lastStatus = "play"
UnmuteCase == engine.status = "play" /\ lastStatus # "play" /\ ~engine.mute

\* C6 as claimed: a delivered state causes a mute write exactly in the mute case,
\* an unmute write exactly in the unmute case, and no write to 0x07 otherwise.
C6_Original ==
  [][op'.name = "pushState" =>
       LET w == Writes(trace', REG_GENERAL)
       IN /\ MuteCase <=> (Len(w) = 1 /\ IsMuteWrite(w[1]))
          /\ UnmuteCase <=> (Len(w) = 1 /\ IsUnmuteWrite(w[1]))
          /\ (~MuteCase /\ ~UnmuteCase) => w = <<>>]_vars

\* C6 as amended: the same while deviceFound is true; with deviceFound false the
\* handler returns at once, writes nothing and keeps lastStatus.
C6_WritesExactlyOnTransitions ==
  [][op'.name = "pushState" =>
       LET w == Writes(trace', REG_GENERAL)
       IN IF deviceFound
          THEN /\ MuteCase <=> (Len(w) = 1 /\ IsMuteWrite(w[1]))
               /\ UnmuteCase <=> (Len(w) = 1 /\ IsUnmuteWrite(w[1]))
               /\ (~MuteCase /\ ~UnmuteCase) => w = <<>>
          ELSE trace' = <<>> /\ lastStatus' = lastStatus]_vars

C6_Witness ==
  /\ op.name = "pushState" /\ deviceFound /\ engine.status = "stop"
  /\ lastStatus = "stop" /\ Len(trace) = 1 /\ IsMuteWrite(trace[1])

\* C8: a volume callback writes register 0x07 only if the state it pulls is play;
\* when the status is pause or stop, or the state is absent, reg7 is unchanged.
C8_CallbackMuteOnlyWhilePlaying ==
  [][op'.name = "volumeCallback" =>
       LET playing == engine.present /\ engine.status = "play"
       IN /\ Writes(trace', REG_GENERAL) # <<>> => (playing /\ op'.flag # "none")
          /\ ~playing => reg7' = reg7]_vars

C8_Witness ==
  /\ op.name = "volumeCallback" /\ op.flag = "true"
  /\ engine.present /\ engine.status = "pause"
  /\ Writes(trace, REG_GENERAL) = <<>> /\ ~MuteBit(reg7)

\* C9: a state whose status and volume equal the last-applied ones, delivered by
\* the push feed, the fallback poll or the initial pull, makes no bus write and
\* leaves lastStatus, lastVolume and the register shadows unchanged.
C9_DuplicateDeliveryIsSilent ==
  [][(/\ op'.name \in {"pushState", "fallbackPoll", "initialPull"}
      /\ engine.present
      /\ engine.status = lastStatus
      /\ engine.volume = lastVolume) =>
       /\ trace' = <<>>
       /\ UNCHANGED <<lastStatus, lastVolume, reg7, reg12, reg21>>]_vars

C9_Witness ==
  /\ op.name = "fallbackPoll" /\ deviceFound /\ engine.present
  /\ engine.status = lastStatus /\ engine.volume = lastVolume
  /\ engine.status = "play" /\ trace = <<>>

\* The delivered sequence play, pause, play with mute false, to a controller that
\* held lastStatus = null when the deliveries began.
C7_PlayPausePlay ==
  /\ deviceFound /\ Len(hist) = 4
  /\ hist[1].status = "null"
  /\ hist[2] = [status |-> "play", mute |-> FALSE]
  /\ hist[3] = [status |-> "pause", mute |-> FALSE]
  /\ hist[4] = [status |-> "play", mute |-> FALSE]

\* C7 as claimed: play, pause, play to a fresh controller gives exactly two writes
\* to 0x07, the first setting bit 0 and the second clearing it.
C7_Original == C7_PlayPausePlay => w7log = <<TRUE, FALSE>>

\* C7 as amended: the sequence gives exactly three writes to 0x07: the first play,
\* coming from null, clears bit 0; the pause sets it; the second play clears it.
C7_ClearSetClear == C7_PlayPausePlay => w7log = <<FALSE, TRUE, FALSE>>

C7_Witness == C7_PlayPausePlay /\ Len(w7log) = 3 /\ ~MuteBit(reg7)

----------------------------------------------------------------------------
(* Claims about the net mute bit *)

AnyIntent == transportMute \/ seekTimers > 0 \/ userMute

\* C2: with the device found, bit 0 of reg7 equals transportMute OR seekMute OR
\* userMute in every state of the running controller.
C2_NetMuteIsOrOfIntents ==
  (pc = "running" /\ deviceFound) => (MuteBit(reg7) <=> AnyIntent)

\* C3: bit 0 of reg7 is cleared only by a step after which no mute intent
\* (transport, seek, user) remains active.
C3_ClearedOnlyWhenNoIntent ==
  [][(deviceFound /\ MuteBit(reg7) /\ ~MuteBit(reg7')) => ~AnyIntent']_vars

----------------------------------------------------------------------------
(* Claims about the connection machine *)

\* The delays of the reconnect sequence, by the number of consecutive failures.
C10_Sequence(n) ==
  CASE n = 1 -> 1000
    [] n = 2 -> 2000
    [] n = 3 -> 4000
    [] n = 4 -> 8000
    [] n = 5 -> 16000
    [] OTHER -> 30000

\* C10: the reconnect timer scheduled after the n-th consecutive failure since the
\* last successful connect runs for min(1000 * 2^(n-1), 30000) ms, that is 1000,
\* 2000, 4000, 8000, 16000 and then 30000; a successful connect resets n.
C10_BackoffSequence ==
  reconnectTimer # NoTimer =>
    /\ failures >= 1
    /\ reconnectTimer = C10_Sequence(failures)
    /\ reconnectTimer = Min(1000 * 2^(failures - 1), 30000)

C10_Witness ==
  /\ failures = 7 /\ reconnectTimer = 30000
  /\ socketFailedSince > 1

\* C11: in the state that results from handling the socket's connect event,
\* socketConnected is true, reconnectAttempts is 0, socketFailedSince is null, no
\* fallback poller runs and a getState request has been emitted.
C11_ConnectResets ==
  op.name = "connect" =>
    /\ socketConnected
    /\ reconnectAttempts = 0
    /\ socketFailedSince = NoTime
    /\ ~fallbackPoller
    /\ \E i \in DOMAIN trace : trace[i] = EmitEv

C11_Witness ==
  /\ op.name = "connect" /\ socketConnected /\ ~fallbackPoller
  /\ trace = <<ClearIntervalEv, EmitEv>>

\* C12: the fallback poller starts only in a step that leaves the socket
\* disconnected with more than 300000 ms passed since socketFailedSince, and it
\* never runs while socketConnected is true.
C12_FallbackOnlyAfterLongOutage ==
  /\ [](~(fallbackPoller /\ socketConnected))
  /\ [][(~fallbackPoller /\ fallbackPoller') =>
          /\ ~socketConnected'
          /\ socketFailedSince' # NoTime
          /\ now' - socketFailedSince' > 300000]_vars

C12_Witness ==
  /\ fallbackPoller /\ ~socketConnected
  /\ op.name \in {"connect_error", "disconnect"}
  /\ pollerDue = now + FallbackIntervalMs
  /\ now - socketFailedSince > 300000

----------------------------------------------------------------------------
(* Claims about the bus *)

\* C13: at no time are two bus transactions in flight simultaneously.
C13_OneTransactionAtATime == Cardinality(inflight) <= 1

\* C14: a transaction issued through i2cWrite starts only when the earlier one has
\* completed, and at least I2C_THROTTLE_MS after its completion.
C14_ThrottledStarts ==
  [][op'.name = "i2cStart" =>
       /\ inflight = {}
       /\ now - lastI2cWrite >= I2C_THROTTLE_MS]_vars

\* C15: writes submitted to i2cWrite take effect on the device in submission
\* order: a register never goes from a later-submitted value back to an
\* earlier-submitted one.
C15_SubmissionOrderKept ==
  [][\A r \in ShadowRegs : dev'[r].seq >= dev[r].seq]_vars

\* The shadow the controller keeps of register r.
Shadow(r) == IF r = REG_GENERAL THEN reg7 ELSE IF r = REG_DPLL THEN reg12 ELSE reg21

\* C16: once every submitted write has ended, each shadow equals the last value
\* successfully written to its register (or the initial default).
C16_ShadowIsLastWritten ==
  (asyncQueue = <<>> /\ inflight = {}) =>
    \A r \in ShadowRegs : Shadow(r) = dev[r].val

\* The writes initDevice submits to i2cWrite are the first ones submitted.
InitWriteCount == Len(AsyncWrites(InitDeviceFx(128, 0, 0, TRUE, TRUE).trace))
InitWritePending ==
  \/ \E i \in DOMAIN asyncQueue : asyncQueue[i].seq <= InitWriteCount
  \/ \E w \in inflight : w.seq <= InitWriteCount

\* C19: the write that clears the mute bit at the end of initDevice is executed
\* only after every initialization write has been executed.
C19_UnmuteAfterInitWrites ==
  (op.name = "initialPull" /\ \E i \in DOMAIN trace : IsUnmuteWrite(trace[i]))
    => ~InitWritePending

----------------------------------------------------------------------------
(* Claims about device detection *)

\* The register writes a handler made or submitted.
AllWrites(t) == SelectSeq(t, LAMBDA e : e.ev \in {"sync", "async"})

\* C17: a handler that runs while deviceFound is false issues no register write.
C17_NoWriteWhileAbsent ==
  [][(pc \in {"running", "stopped"} /\ ~deviceFound) => AllWrites(trace') = <<>>]_vars

\* C18: onStart takes the device as found exactly when the read of register 64
\* succeeded with bits 4..2 of the byte equal to 100; in every case its promise
\* resolves, and without the device it makes no write.
C18_DetectionExact ==
  /\ op.name = "startAbsent" =>
       /\ ~deviceFound /\ op.ret = "resolved"
       /\ trace[1].ev = "probe"
       /\ ~(trace[1].ok /\ (trace[1].b \div 4) % 8 = 4)
       /\ AllWrites(trace) = <<>>
  /\ op.name = "initialPull" =>
       /\ deviceFound /\ op.ret = "resolved"
       /\ trace[1].ev = "probe"
       /\ trace[1].ok /\ (trace[1].b \div 4) % 8 = 4

C18_Witness ==
  /\ op.name = "startAbsent" /\ ~deviceFound
  /\ trace = <<ProbeEv(20, TRUE)>>

----------------------------------------------------------------------------
(* Claims about the volume curve *)

\* The byte last sent to register 0x0F by the handler that left trace t.
LeftByte(t) == Writes(t, REG_VOL_L)[Len(Writes(t, REG_VOL_L))].b

\* C20: with balance 0, when a volume in [0,100] is applied after a lower one, the
\* attenuation byte written is less than or equal to the byte written before.
C20_AttenuationMonotone ==
  [][(/\ lBal = 0
      /\ lastVolume \in AllVolumes /\ lastVolume' \in AllVolumes
      /\ lastVolume < lastVolume'
      /\ Writes(trace, REG_VOL_L) # <<>> /\ Writes(trace', REG_VOL_L) # <<>>)
       => LeftByte(trace') <= LeftByte(trace)]_vars

C20_Witness ==
  /\ op.name = "volumeCallback" /\ lBal = 0 /\ lastVolume = 50
  /\ Writes(trace, REG_VOL_L) = <<AsyncEv(REG_VOL_L, 50)>>
  /\ Writes(trace, REG_VOL_R) = <<AsyncEv(REG_VOL_R, 50)>>

----------------------------------------------------------------------------
(* Claims about the ends of the volume range and the balance offsets *)

\* The bytes sent to the two volume registers by the handler that left trace t.
VolumeBytes(t) ==
  [i \in 1..Len(Writes(t, REG_VOL_L) \o Writes(t, REG_VOL_R)) |->
     (Writes(t, REG_VOL_L) \o Writes(t, REG_VOL_R))[i].b]

AppliesVolume ==
  /\ op.name \in {"volumeCallback", "saveBalanceSettings"}
  /\ Writes(trace, REG_VOL_L) # <<>>

\* C21: with balance 0, volume 0 writes 0xFF to both volume registers and volume
\* 100 writes 0x00 to both; with any balance, volume 0 still writes 0xFF to both.
C21_RangeEnds ==
  AppliesVolume =>
    /\ lastVolume = 0 => VolumeBytes(trace) = <<255, 255>>
    /\ (lastVolume = 100 /\ lBal = 0 /\ rBal = 0) => VolumeBytes(trace) = <<0, 0>>

C21_Witness ==
  /\ op.name = "volumeCallback" /\ lastVolume = 0 /\ lBal = 25
  /\ VolumeBytes(trace) = <<255, 255>>

\* C22: a volume above 100 gives the same register bytes as volume 100, and
\* every byte written to a volume register is in 0..255.
C22_VolumeClamped ==
  AppliesVolume =>
    /\ lastVolume > 100 => VolumeBytes(trace) = VolumeBytes(SetVolume(100, lBal, rBal))
    /\ \A i \in DOMAIN VolumeBytes(trace) : VolumeBytes(trace)[i] \in 0..255

\* C23: lBal and rBal are integers in [0,40] and at most one of them is nonzero,
\* whatever balance was saved and whenever the stored balance is loaded again.
C23_BalanceOffsetsInRange ==
  /\ lBal \in 0..40
  /\ rBal \in 0..40
  /\ lBal = 0 \/ rBal = 0

----------------------------------------------------------------------------
(* Claims about the seek-mute duration *)

\* C24: whatever saveDeviceSettings receives as seekMuteMs, the active and the
\* stored seek-mute duration are integers in [0, 2000].
C24_SeekMuteMsInRange ==
  /\ seekMuteMs \in 0..MaxSeekMuteMs
  /\ config.seekMuteMs \in 0..MaxSeekMuteMs

C24_Witness ==
  /\ op.name = "saveDeviceSettings" /\ op.flag = "number" /\ op.pos = 2500
  /\ seekMuteMs = MaxSeekMuteMs /\ config.seekMuteMs = MaxSeekMuteMs

SavedZero(o) == o.name = "saveDeviceSettings" /\ o.flag = "number" /\ o.pos = 0

\* C25: after saveDeviceSettings with a seek-mute duration of 0, seekMuteMs is 0,
\* and the next seek writes no mute, schedules no timer and is still forwarded.
C25_ZeroDisablesSeekMute ==
  /\ [](SavedZero(op) => seekMuteMs = 0)
  /\ [][(SavedZero(op) /\ op'.name = "seek")
          => (Len(trace') = 1 /\ trace'[1].ev = "forward" /\ seekTimers' = seekTimers)]_vars

----------------------------------------------------------------------------
(* Claims about the stop hooks *)

\* C26: after onStop (stopVolumeSync), a call by the engine of the handler
\* registered for volumioupdatevolume writes nothing to the bus and leaves
\* lastVolume and reg7 as they were.
C26_CallbackDeadAfterStop ==
  [][(pc = "stopped" /\ op'.name = "volumeCallback")
       => (trace' = <<>> /\ lastVolume' = lastVolume /\ reg7' = reg7)]_vars

LastWrite(t, reg) == Writes(t, reg)[Len(Writes(t, reg))]

\* C27: with the device found, the last write of register 0x07 made by onStop,
\* onVolumioShutdown or onVolumioReboot has the mute bit set, and no write made
\* after onStop (seek-unmute timer, volume callback) clears the bit.
C27_MutedAfterStop ==
  [][/\ (op'.name \in {"onStop", "onVolumioShutdown"} /\ deviceFound)
          => (Writes(trace', REG_GENERAL) # <<>> /\ MuteBit(LastWrite(trace', REG_GENERAL).b))
     /\ (pc = "stopped" /\ deviceFound)
          => (MuteBit(reg7') /\ \A i \in DOMAIN Writes(trace', REG_GENERAL) :
                                   MuteBit(Writes(trace', REG_GENERAL)[i].b))]_vars

----------------------------------------------------------------------------
(* Claims about the register mutators *)

\* The bits of reg7 and reg21 that stand for a FIR mode and for an IIR mode.
FirCode(mode) ==
  [b7 |-> IF mode = 0 THEN 32 ELSE IF mode = 2 THEN 64 ELSE 0,
   b21 |-> IF mode = 3 THEN 1 ELSE 0]
IirCode(mode) ==
  [b7 |-> IF mode = 1 THEN 4 ELSE IF mode = 2 THEN 8 ELSE IF mode = 3 THEN 12 ELSE 0,
   b21 |-> IF mode = 4 THEN 4 ELSE 0]

\* Applied to the current shadows, setFirFilter leaves everything but bits 5-6 of
\* reg7 and bit 0 of reg21, setIirFilter everything but bits 2-3 of reg7 and bit 2
\* of reg21, and a mute request everything but bit 0 of reg7.
MutatorFrames ==
  /\ \A mode \in FirModes :
       /\ BitAnd(SetFirFilter(reg7, reg21, mode).reg7, 159) = BitAnd(reg7, 159)
       /\ BitAnd(SetFirFilter(reg7, reg21, mode).reg21, 254) = BitAnd(reg21, 254)
  /\ \A mode \in IirModes :
       /\ BitAnd(SetIirFilter(reg7, reg21, mode).reg7, 243) = BitAnd(reg7, 243)
       /\ BitAnd(SetIirFilter(reg7, reg21, mode).reg21, 251) = BitAnd(reg21, 251)
  /\ \A mute \in BOOLEAN : BitAnd(MuteByte(reg7, mute), 254) = BitAnd(reg7, 254)

\* The shadows stand for the FIR and IIR modes requested last.
EncodesFilters ==
  /\ BitAnd(reg7, 96) = FirCode(config.fir).b7
  /\ BitAnd(reg21, 1) = FirCode(config.fir).b21
  /\ BitAnd(reg7, 12) = IirCode(config.iir).b7
  /\ BitAnd(reg21, 4) = IirCode(config.iir).b21

\* What a handler's step does to the shadows and sends to the bus.
MutatorSteps ==
  /\ op'.name = "saveFilterSettings" =>
       /\ BitAnd(reg7', 147) = BitAnd(reg7, 147)
       /\ BitAnd(reg21', 250) = BitAnd(reg21, 250)
       /\ Writes(trace', REG_GENERAL) # <<>> =>
            /\ LastWrite(trace', REG_GENERAL).b = reg7'
            /\ LastWrite(trace', REG_GPIO).b = reg21'
  /\ op'.name \in {"seek", "seekTimer", "volumeCallback"} =>
       /\ BitAnd(reg7', 254) = BitAnd(reg7, 254)
       /\ reg21' = reg21
       /\ Writes(trace', REG_GENERAL) # <<>> => LastWrite(trace', REG_GENERAL).b = reg7'
  /\ (op'.name = "seek" /\ Writes(trace', REG_GENERAL) # <<>>) => MuteBit(reg7')
  /\ (op'.name = "seekTimer" /\ Writes(trace', REG_GENERAL) # <<>>) => ~MuteBit(reg7')
  /\ (op'.name = "volumeCallback" /\ Writes(trace', REG_GENERAL) # <<>>)
       => (MuteBit(reg7') <=> op'.flag = "true")

\* C30: setMute/setMuteSync change only bit 0 of reg7, setFirFilter only bits 5-6
\* of reg7 and bit 0 of reg21, setIirFilter only bits 2-3 of reg7 and bit 2 of
\* reg21; after any interleaving the shadows encode the mute state, the FIR mode
\* and the IIR mode requested last, and what is written is the whole new shadow.
C30_MutatorsKeepOtherBits ==
  /\ []MutatorFrames
  /\ []EncodesFilters
  /\ [][MutatorSteps]_vars

C30_Witness ==
  /\ op.name = "saveFilterSettings" /\ config.fir = 3 /\ config.iir = 4
  /\ MuteBit(reg7) /\ reg21 = 5
  /\ Writes(trace, REG_GPIO) # <<>> /\ LastWrite(trace, REG_GPIO).b = 5

----------------------------------------------------------------------------
(* Claims about overlapping detection probes *)

\* C29: when two detection probes overlap, deviceFound ends with the result of
\* the probe started last; the late result of an earlier probe does not replace it.
C29_LatestProbeWins ==
  (probes = {} /\ probeSeq > 0) =>
    \E r \in probeResult : r.id = probeSeq /\ r.found = deviceFound

----------------------------------------------------------------------------
(* Claims about the end of a seek mute *)

PlaysUnmuted == engine.present /\ engine.status = "play" /\ ~engine.mute

\* The seek-unmute timer has expired and left the mute bit set.
TimerLeftMuted == op.name = "seekTimer" /\ trace = <<>> /\ MuteBit(reg7)

\* C28: when a seek-unmute timer leaves the DAC muted and every state change of
\* the engine is delivered, the mute bit does not stay set for ever while the
\* engine plays unmuted: at some later point it is cleared or the engine no
\* longer plays unmuted.
C28_MuteEventuallyCleared ==
  /\ TimerLeftMuted ~> (~PlaysUnmuted \/ ~MuteBit(reg7))
  /\ []<>(~PlaysUnmuted \/ ~MuteBit(reg7))

\* The timer has left the DAC muted because the engine plays muted; no other
\* timer and no notification is pending.
C28_Witness ==
  /\ TimerLeftMuted
  /\ engine.status = "play" /\ engine.mute
  /\ seekTimers = 0 /\ feed = <<>>

----------------------------------------------------------------------------
(* Claims about the restricted-range curve *)

BalanceZeroVolume ==
  /\ op.name = "volumeCallback" /\ lBal = 0 /\ rBal = 0
  /\ Writes(trace, REG_VOL_L) # <<>>

----------------------------------------------------------------------------
(* Claims about the controller of src/index.js *)

\* C32: in src/index.js, after handleStateChange has handled a state that takes
\* the status from play to pause or stop, the last byte submitted for register
\* 0x07 has the mute bit set, whatever the mute flag of that state.
C32_MutedWhenLeavingPlay ==
  [][(op'.name = "indexPushState" /\ deviceFound
        /\ lastStatus = "play" /\ lastStatus' \in {"pause", "stop"})
       => (/\ Writes(trace', REG_GENERAL) # <<>>
           /\ MuteBit(LastWrite(trace', REG_GENERAL).b)
           /\ MuteBit(reg7'))]_vars

----------------------------------------------------------------------------
(* Claims about installing and removing the seek intercept *)

MuteWrites(t) == SelectSeq(t, LAMBDA e : e.ev = "sync" /\ e.a = REG_GENERAL)

\* C33: installSeekIntercept is idempotent, so that one seek causes at most one
\* pre-mute and one forwarded call; after removeSeekIntercept a call of
\* commandRouter.volumioSeek reaches the original seek exactly once and writes no
\* mute; install/remove cycles always come back to this wiring.
C33_InterceptWiring ==
  /\ [](seekWrappers = IF seekInterceptInstalled THEN 1 ELSE 0)
  /\ [][op'.name = "seekCall" =>
          /\ Len(Forwards(trace')) = 1
          /\ Len(MuteWrites(trace')) <= 1
          /\ ~seekInterceptInstalled =>
               (Len(trace') = 1 /\ reg7' = reg7 /\ seekTimers' = seekTimers)]_vars

\* A seek forwarded untouched on a started controller with the device found and
\* seek mute enabled: the intercept installed at start-up has been removed.
C33_Witness ==
  /\ op.name = "seekCall" /\ deviceFound /\ seekMuteMs > 0
  /\ ~seekInterceptInstalled /\ seekWrappers = 0
  /\ Len(trace) = 1 /\ trace[1].ev = "forward"

----------------------------------------------------------------------------
(* Claims about stopping the connection *)

linkFields == <<volumioSocket, socketConnected, reconnectAttempts, reconnectTimer,
                reconnectDue, socketFailedSince, fallbackPoller, pollerDue>>

\* Nothing of the connection is left: no timer, no interval, no socket.
LinkClear ==
  /\ reconnectTimer = NoTimer
  /\ ~fallbackPoller
  /\ volumioSocket = "none"
  /\ ~socketConnected
  /\ liveTimers = 0
  /\ liveIntervals = 0
  /\ liveSockets = 0

\* C34: stopSocketConnection and stopFallbackPoller leave the same state
\* however often and in whatever state they are called: after
\* stopSocketConnection no reconnect timer and no fallback interval is pending,
\* no socket is open and socketConnected is false; a second call changes
\* nothing and touches no timer, interval or socket; after stopFallbackPoller
\* no interval is pending; and while the connection is stopped no reconnect
\* attempt and no fallback poll runs.
C34_StopIsIdempotent ==
  [][/\ (op'.name = "stopSocketConnection" => LinkClear')
     /\ (op.name = "stopSocketConnection" /\ op'.name = "stopSocketConnection"
           => trace' = <<>> /\ UNCHANGED linkFields /\ UNCHANGED linkVars)
     /\ (op'.name = "stopFallbackPoller" => ~fallbackPoller' /\ liveIntervals' = 0)
     /\ (op.name = "stopFallbackPoller" /\ op'.name = "stopFallbackPoller"
           => trace' = <<>> /\ UNCHANGED linkFields /\ UNCHANGED linkVars)
     /\ (LinkClear => op'.name \notin {"reconnect", "fallbackPoll", "connect",
                                       "connect_error", "disconnect", "failureAgain"})
    ]_vars

\* stopSocketConnection was called on a running controller with a reconnect
\* timer and the fallback poller pending, and cleared them.
C34_Witness ==
  /\ op.name = "stopSocketConnection"
  /\ pc = "running"
  /\ trace = <<ClearTimeoutEv, ClearIntervalEv, CloseEv>>
  /\ LinkClear

\* The handles alive are those the controller's fields hold.
LinkHandlesHeld ==
  /\ liveTimers = (IF reconnectTimer # NoTimer THEN 1 ELSE 0)
  /\ liveIntervals = (IF fallbackPoller THEN 1 ELSE 0)
  /\ liveSockets = (IF volumioSocket # "none" THEN 1 ELSE 0)

\* C38: whatever the interleaving of connect, disconnect, connect_error, timer
\* expiry and stop, at most one reconnect timer, one fallback interval and one
\* socket with listeners exist, each held by the controller's field; the first
\* event of a failure schedules one reconnect and counts one attempt, and the
\* second event of the same failure schedules nothing and counts nothing.
C38_OneOfEach ==
  /\ [](liveTimers <= 1 /\ liveIntervals <= 1 /\ liveSockets <= 1 /\ LinkHandlesHeld)
  /\ [][/\ (op'.name \in {"connect_error", "disconnect"}
              => /\ reconnectAttempts' = reconnectAttempts + 1
                 /\ liveTimers = 0 /\ liveTimers' = 1)
        /\ (op'.name = "failureAgain"
              => /\ reconnectAttempts' = reconnectAttempts
                 /\ UNCHANGED <<reconnectTimer, reconnectDue, fallbackPoller, pollerDue>>
                 /\ UNCHANGED linkVars)
       ]_vars

\* The second event of a failure arrived while the reconnect timer of the first
\* and the fallback interval were pending.
C38_Witness ==
  /\ op.name = "failureAgain"
  /\ reconnectAttempts >= 2
  /\ liveTimers = 1
  /\ liveIntervals = 1
  /\ liveSockets = 1

\* The socket connection was started and not stopped.
LinkStarted == pc = "running" /\ volumioSocket # "none"

\* The pending reconnect timer is due after the end of the modelled time.
ClockEnds == reconnectTimer # NoTimer /\ reconnectDue > MaxTime

\* C39: while the socket connection is started and not stopped, every state
\* that is not connected has a connection attempt in progress or a reconnect
\* timer pending (and alive); so when timers fire and the endpoint is reachable
\* in the end, the controller reaches socketConnected = TRUE unless it is stopped
\* (or the modelled time ends first).
C39_AlwaysRetrying ==
  /\ [](LinkStarted /\ ~socketConnected
          => \/ volumioSocket = "connecting"
             \/ (reconnectTimer # NoTimer /\ liveTimers = 1 /\ reconnectDue >= now))
  /\ ((LinkStarted /\ ~socketConnected)
        ~> (socketConnected \/ ~LinkStarted \/ ClockEnds))

\* A second attempt in a row failed and its reconnect timer is pending.
C39_Witness ==
  /\ LinkStarted
  /\ ~socketConnected
  /\ op.name = "connect_error"
  /\ reconnectAttempts >= 2
  /\ reconnectTimer # NoTimer
  /\ ~ClockEnds

----------------------------------------------------------------------------
(* Claims about queued writes and the mute bit *)

\* Every write submitted so far has ended, and none has failed.
AllWritesLanded == asyncQueue = <<>> /\ inflight = {} /\ ~busFailed

\* C35: once every queued write has completed successfully, register 0x07 of
\* the device equals the shadow reg7: no write of 0x07 queued through i2cWrite
\* lands after a later synchronous mute write and overwrites its mute bit.
C35_DeviceMatchesShadow ==
  AllWritesLanded => dev[REG_GENERAL].val = reg7

----------------------------------------------------------------------------
(* Claims about the volume registers and lastVolume *)

\* The bytes a handler wrote last to 0x0F and 0x10.
LastVolumeBytes(t) == <<LastWrite(t, REG_VOL_L).b, LastWrite(t, REG_VOL_R).b>>

\* C36: with the device found and lastVolume non-null, the bytes last written
\* to 0x0F/0x10 are those setVolume computes for lastVolume with the current
\* lBal/rBal: a handler that writes the volume registers (resetDevice, through
\* initDevice's 90% default, included) leaves them at the bytes of lastVolume,
\* and a handler that changes lastVolume, lBal or rBal writes them.
C36_VolumeFollowsLastVolume ==
  [][(deviceFound /\ deviceFound' /\ lastVolume' # NoVolume) =>
       /\ Writes(trace', REG_VOL_L) # <<>>
            => LastVolumeBytes(trace') = VolumeBytes(SetVolume(lastVolume', lBal', rBal'))
       /\ <<lastVolume', lBal', rBal'>> # <<lastVolume, lBal, rBal>>
            => Writes(trace', REG_VOL_L) # <<>>
    ]_vars

----------------------------------------------------------------------------
(* Claims about overlapping seeks *)

\* C37: after a seek with seek mute enabled the mute bit stays set until that
\* seek's own timer expires: when the timer of an earlier seek expires while
\* the timer of a later seek is still pending, the bit is left set.
C37_MutedUntilOwnTimer ==
  [][(op'.name = "seekTimer" /\ seekTimers' > 0 /\ MuteBit(reg7)) => MuteBit(reg7')]_vars

----------------------------------------------------------------------------
(* Claims about seek detection by polling *)

\* The engine's state asks for silence: it does not play, or it plays muted.
EngineSilent == ~engine.present \/ engine.status # "play" \/ engine.mute

\* C40: in the polling controller a seek detected by a poll mutes, and sets
\* its unmute timer, only if the mute bit is clear; detected with the bit set
\* (by a pause/stop transition or by the user) it writes nothing and sets no
\* timer; and the expiry of an unmute timer clears the bit only if the engine
\* then plays with mute false: with the engine paused, stopped or muted it
\* writes nothing, whatever polls, volume callbacks and expiries came before.
C40_SeekDetectionKeepsMutes ==
  [][/\ (op'.name = "doPoll" /\ op'.flag = "seek" /\ MuteBit(reg7))
          => /\ reg7' = reg7
             /\ seekTimers' = seekTimers
             /\ Writes(trace', REG_GENERAL) = <<>>
     /\ (op'.name = "doPoll" /\ seekTimers' > seekTimers)
          => /\ op'.flag = "seek"
             /\ ~MuteBit(reg7)
             /\ MuteBit(reg7')
     /\ (op'.name = "pollSeekTimer" /\ EngineSilent)
          => /\ reg7' = reg7
             /\ trace' = <<>>
     /\ (op'.name = "pollSeekTimer" /\ ~EngineSilent)
          => ~MuteBit(reg7')
    ]_vars

\* An unmute timer set by a detected seek expired after a poll had muted the
\* DAC for a pause: the bit is still set.
C40_Witness ==
  /\ op.name = "pollSeekTimer"
  /\ engine.status = "pause"
  /\ lastStatus = "pause"
  /\ MuteBit(reg7)
  /\ trace = <<>>

====
